---- MODULE Spec2Model ----
(***************************************************************************)
(* Generation orchestration of the taco backend (package main):            *)
(*   - progressTracker: the process-wide progress hub (subscribe,          *)
(*     unsubscribe, publish) and the channels it owns;                      *)
(*   - generateSceneImageHandler / generateSceneAudioHandler: one handler   *)
(*     run from the HTTP request to the HTTP response, with the image       *)
(*     retry loop, the provider call, the materialization of the artifact   *)
(*     and the persistence of the scene record.                             *)
(* Strings that the code inspects (configuration fields) are sequences of   *)
(* one-character strings; error texts are sequences of text pieces.         *)
(***************************************************************************)
EXTENDS Integers, Sequences, FiniteSets, TLC

\* ------------------------------------------------------------------ bounds
\* channels the hub may create in one behaviour
MaxChans == 2
\* publish calls an external publisher makes in one behaviour of SpecHub
MaxPublish == 11
\* of these, the publish calls for each task id other than "t1"
MaxOtherPublish == 1
\* events subscribers take out of their channels in one behaviour of SpecHub
MaxRecv == 1
\* handler runs in one behaviour of Spec
MaxRuns == 1
\* the largest value time.Now().Unix() returns in one behaviour (it starts at 1)
MaxStamp == 2
\* pieces of a text handed to extractImageURL
MaxParts == 3

\* --------------------------------------------------------- program constants
\* make(chan ProgressUpdate, 10)
ChanCap == 10
\* maxRetries := 3
maxRetries == 3
\* waitTime := time.Duration(attempt-1) * 2 * time.Second
BackoffUnit == 2

\* task ids clients supply, and the one a handler makes up for a request without one
TaskIds == {"t1", "t2"}
GenTaskId == "gen"
AllTaskIds == TaskIds \cup {GenTaskId}
ChanIds == 1..MaxChans

VARIABLES
    \* progressTracker
    channels,     \* pt.channels: a map, here a function whose DOMAIN is the key set
    chanBuf,      \* the buffered contents of every channel made so far
    chanState,    \* "unmade", "open" or "closed" per channel
    hubPanic,     \* a send on, or a close of, a closed channel happened
    \* history of the hub
    published,    \* per task id, every update handed to publish, in order (under Spec:
                  \* since the handler run in progress began)
    subscribed,   \* per open channel, its task id and how many updates of that task
                  \* id had been published when subscribe made it
    taken,        \* per open channel, every update its reader took out of it, in order
    overflowed,   \* per open channel, whether a publish found its buffer full
    recvCount,    \* receives of the subscribers
    \* the stores
    scenesFile,   \* scenes.json: the persisted scene collection
    files,        \* the files under generated/images and generated/audio
    lastStamp,    \* the last value time.Now().Unix() returned
    \* one run of generateSceneImageHandler or generateSceneAudioHandler
    h,            \* the handler's position and locals
    calls,        \* history: the provider calls of the run, in order
    sleeps,       \* history: the backoff sleeps of the run, in order
    events,       \* history: the updates the run published, in order
    runCount,     \* handler runs started
    \* one application of extractImageURL
    parts,        \* the pieces the text is made of
    extracted,    \* what the function returned for the text, once it was applied
    \* one call of a function of the normalizer, the materializer or the stores
    arg,          \* the function called and its arguments
    ret,          \* what the call returned and left behind, once it was made
    \* the requests in flight next to one another
    sse,          \* per progressHandler request, its position and locals
    mu,           \* pt.mu: the goroutine holding the write lock, those holding read locks
    gor,          \* per goroutine calling into the hub, its position inside the call
    runs          \* per overlapping run of generateSceneImageHandler, its position
                  \* and locals

pureVars == <<parts, extracted, arg, ret>>

sseVars == <<sse>>

lockVars == <<mu, gor>>

overlapVars == <<runs>>

procVars == <<sseVars, lockVars, overlapVars>>

hubVars == <<channels, chanBuf, chanState, hubPanic, published, subscribed, taken,
             overflowed, recvCount>>

\* -------------------------------------------------------------- ProgressUpdate
NoError == <<>>

Update(taskID, stage, message, progress, completed, error) ==
    [TaskID |-> taskID, Stage |-> stage, Message |-> message,
     Progress |-> progress, Completed |-> completed, Error |-> error]

NoUpdate == Update("", <<>>, "", 0, FALSE, NoError)

\* --------------------------------------------------------------- the hub
\* the history entry of a channel that is not subscribed
NoSubscription == [task |-> "", at |-> 0]

\* pt.channels[taskID]: a missing key reads as the nil slice
Lookup(chs, taskID) == IF taskID \in DOMAIN chs THEN chs[taskID] ELSE <<>>

\* pt.channels[taskID] = list
MapPut(chs, taskID, list) ==
    [t \in (DOMAIN chs) \cup {taskID} |-> IF t = taskID THEN list ELSE chs[t]]

\* delete(pt.channels, taskID)
MapDelete(chs, taskID) == [t \in (DOMAIN chs) \ {taskID} |-> chs[t]]

\* index of the first occurrence of ch in list, 0 when absent
RECURSIVE IndexOfFrom(_, _, _)
IndexOfFrom(list, ch, i) ==
    IF i > Len(list) THEN 0
    ELSE IF list[i] = ch THEN i
    ELSE IndexOfFrom(list, ch, i + 1)

IndexOf(list, ch) == IndexOfFrom(list, ch, 1)

\* append(channels[:i], channels[i+1:]...)
RemoveAt(list, i) == SubSeq(list, 1, i - 1) \o SubSeq(list, i + 1, Len(list))

\* select { case ch <- update: default: } on a channel whose buffer is buf:
\* whether the statement completes, and the buffer afterwards.
\* A variant without the default clause: the bare send ch <- update.
SelectSendBlocking(buf, update) ==
    [ready |-> Len(buf) < ChanCap, buf |-> Append(buf, update)]

\* A variant that puts the update in front of the buffered ones.
SelectSendFront(buf, update) ==
    IF Len(buf) < ChanCap
    THEN [ready |-> TRUE, buf |-> <<update>> \o buf]
    ELSE [ready |-> TRUE, buf |-> buf]

SelectSend(buf, update) ==
    IF Len(buf) < ChanCap
    THEN [ready |-> TRUE, buf |-> Append(buf, update)]
    ELSE [ready |-> TRUE, buf |-> buf]

\* for _, ch := range pt.channels[update.TaskID] { select ... }
\* over the rest of the list from position i; the result holds the buffers, whether
\* every select completed and whether a send hit a closed channel.
\* A variant that leaves the loop at the first full channel.
RECURSIVE PublishLoopBreak(_, _, _, _)
PublishLoopBreak(list, i, update, acc) ==
    IF i > Len(list) THEN acc
    ELSE IF chanState[list[i]] = "closed"
         THEN [acc EXCEPT !.panic = TRUE]
    ELSE IF Len(acc.buf[list[i]]) >= ChanCap THEN acc
    ELSE LET s == SelectSend(acc.buf[list[i]], update)
         IN  PublishLoopBreak(list, i + 1, update,
                 [acc EXCEPT !.buf[list[i]] = s.buf, !.ready = acc.ready /\ s.ready])

\* A variant that leaves the loop after its first send.
PublishLoopFirstOnly(list, i, update, acc) ==
    IF i > Len(list) THEN acc
    ELSE IF chanState[list[i]] = "closed"
         THEN [acc EXCEPT !.panic = TRUE]
    ELSE LET s == SelectSend(acc.buf[list[i]], update)
         IN  [acc EXCEPT !.buf[list[i]] = s.buf, !.ready = acc.ready /\ s.ready]

RECURSIVE PublishLoop(_, _, _, _)
PublishLoop(list, i, update, acc) ==
    IF i > Len(list) THEN acc
    ELSE IF chanState[list[i]] = "closed"
         THEN [acc EXCEPT !.panic = TRUE]
    ELSE LET s == SelectSend(acc.buf[list[i]], update)
         IN  PublishLoop(list, i + 1, update,
                 [acc EXCEPT !.buf[list[i]] = s.buf, !.ready = acc.ready /\ s.ready])

\* the loop of publish run on the hub as it is
PublishResult(update) ==
    PublishLoop(Lookup(channels, update.TaskID), 1, update,
                [buf |-> chanBuf, ready |-> TRUE, panic |-> FALSE])

\* func (pt *progressTracker) publish(update ProgressUpdate): the call returns when
\* every select of its loop has completed
publish(update) ==
    LET r == PublishResult(update)
    IN  /\ r.ready
        /\ chanBuf' = r.buf
        /\ hubPanic' = (hubPanic \/ r.panic)
        /\ published' = [published EXCEPT ![update.TaskID] = Append(@, update)]
        /\ overflowed' = [c \in ChanIds |->
                            \/ overflowed[c]
                            \/ /\ IndexOf(Lookup(channels, update.TaskID), c) > 0
                               /\ Len(chanBuf[c]) >= ChanCap]
        /\ UNCHANGED <<channels, chanState, subscribed, taken>>

\* func (pt *progressTracker) subscribe(taskID string) chan ProgressUpdate
\* ch is the channel make() returns: one that was never made before.
\* A variant that hands the new channel the updates published so far, as far as they
\* fit its buffer.
subscribeReplay(taskID, ch) ==
    LET backlog == SubSeq(published[taskID], 1,
                          IF Len(published[taskID]) < ChanCap THEN Len(published[taskID])
                          ELSE ChanCap)
    IN  /\ chanState[ch] = "unmade"
        /\ chanState' = [chanState EXCEPT ![ch] = "open"]
        /\ channels' = MapPut(channels, taskID, Append(Lookup(channels, taskID), ch))
        /\ subscribed' = [subscribed EXCEPT
                             ![ch] = [task |-> taskID, at |-> Len(published[taskID])]]
        /\ chanBuf' = [chanBuf EXCEPT ![ch] = backlog]
        /\ UNCHANGED <<hubPanic, published, taken, overflowed>>

subscribe(taskID, ch) ==
    /\ chanState[ch] = "unmade"
    /\ chanState' = [chanState EXCEPT ![ch] = "open"]
    /\ channels' = MapPut(channels, taskID, Append(Lookup(channels, taskID), ch))
    /\ subscribed' = [subscribed EXCEPT ![ch] = [task |-> taskID, at |-> Len(published[taskID])]]
    /\ UNCHANGED <<chanBuf, hubPanic, published, taken, overflowed>>

\* the map after the removal loop of unsubscribe
\* A variant that keeps the key of an emptied list.
AfterRemoveKeepKey(chs, taskID, ch) ==
    LET list == Lookup(chs, taskID)
        i == IndexOf(list, ch)
    IN  IF i > 0 THEN MapPut(chs, taskID, RemoveAt(list, i)) ELSE chs

AfterRemove(chs, taskID, ch) ==
    LET list == Lookup(chs, taskID)
        i == IndexOf(list, ch)
        removed == IF i > 0 THEN MapPut(chs, taskID, RemoveAt(list, i)) ELSE chs
    IN  IF Len(Lookup(removed, taskID)) = 0 THEN MapDelete(removed, taskID) ELSE removed

\* func (pt *progressTracker) unsubscribe(taskID string, ch chan ProgressUpdate)
\* Its one call site is the deferred call of progressHandler, the only reader of ch,
\* which returns right after it: the closed channel is unreachable from then on and
\* its contents leave the state.
\* What one call does: the map afterwards, whether close(ch) ran, and whether it ran
\* on a channel that was closed already (a panic).
\* A variant that closes ch whether or not the loop found it.
UnsubscribeResultAlwaysClose(taskID, ch) ==
    [channels |-> AfterRemove(channels, taskID, ch),
     closed |-> TRUE,
     panic |-> chanState[ch] = "closed"]

UnsubscribeResult(taskID, ch) ==
    LET found == IndexOf(Lookup(channels, taskID), ch) > 0
    IN  [channels |-> AfterRemove(channels, taskID, ch),
         closed |-> found,
         panic |-> found /\ chanState[ch] = "closed"]

unsubscribe(taskID, ch) ==
    LET r == UnsubscribeResult(taskID, ch)
    IN  /\ channels' = r.channels
        /\ chanState' = IF r.closed THEN [chanState EXCEPT ![ch] = "closed"] ELSE chanState
        /\ hubPanic' = (hubPanic \/ r.panic)
        /\ chanBuf' = (IF r.closed THEN [chanBuf EXCEPT ![ch] = <<>>] ELSE chanBuf)
        /\ subscribed' = (IF r.closed THEN [subscribed EXCEPT ![ch] = NoSubscription]
                          ELSE subscribed)
        /\ taken' = (IF r.closed THEN [taken EXCEPT ![ch] = <<>>] ELSE taken)
        /\ overflowed' = (IF r.closed THEN [overflowed EXCEPT ![ch] = FALSE] ELSE overflowed)
        /\ UNCHANGED published

\* update, ok := <-ch with a buffered value present
receive(ch) ==
    /\ chanState[ch] = "open"
    /\ Len(chanBuf[ch]) > 0
    /\ chanBuf' = [chanBuf EXCEPT ![ch] = Tail(chanBuf[ch])]
    /\ taken' = [taken EXCEPT ![ch] = Append(@, Head(chanBuf[ch]))]
    /\ UNCHANGED <<channels, chanState, hubPanic, published, subscribed, overflowed>>

HubInit ==
    /\ channels = <<>>
    /\ chanBuf = [c \in ChanIds |-> <<>>]
    /\ chanState = [c \in ChanIds |-> "unmade"]
    /\ hubPanic = FALSE
    /\ published = [t \in AllTaskIds |-> <<>>]
    /\ subscribed = [c \in ChanIds |-> NoSubscription]
    /\ taken = [c \in ChanIds |-> <<>>]
    /\ overflowed = [c \in ChanIds |-> FALSE]
    /\ recvCount = 0

\* ------------------------------------------------------------------ strings
\* A string the code inspects is a sequence of one-character strings.
Http == <<"h", "t", "t", "p", ":", "/", "/">>
Https == <<"h", "t", "t", "p", "s", ":", "/", "/">>

\* unicode.IsSpace for the characters in use
IsSpace(c) == c \in {" ", "\t", "\n", "\r"}

\* strings.HasPrefix(s, prefix)
HasPrefix(s, prefix) == Len(s) >= Len(prefix) /\ SubSeq(s, 1, Len(prefix)) = prefix

\* the text at position i of s starts with prefix
HasPrefixAt(s, i, prefix) ==
    i + Len(prefix) - 1 <= Len(s) /\ SubSeq(s, i, i + Len(prefix) - 1) = prefix

\* strings.Contains(s, sub)
Contains(s, sub) == \E i \in 1..(Len(s) + 1) : HasPrefixAt(s, i, sub)

\* strings.TrimLeft / strings.TrimRight / strings.Trim with a cutset
RECURSIVE TrimLeft(_, _)
TrimLeft(s, cutset) ==
    IF Len(s) > 0 /\ s[1] \in cutset THEN TrimLeft(Tail(s), cutset) ELSE s

RECURSIVE TrimRight(_, _)
TrimRight(s, cutset) ==
    IF Len(s) > 0 /\ s[Len(s)] \in cutset
    THEN TrimRight(SubSeq(s, 1, Len(s) - 1), cutset)
    ELSE s

Trim(s, cutset) == TrimRight(TrimLeft(s, cutset), cutset)

\* strings.TrimSpace(s)
TrimSpace(s) == Trim(s, {" ", "\t", "\n", "\r"})

\* strings.ToLower for the letters in use
LowerChar(c) ==
    CASE c = "H" -> "h" [] c = "T" -> "t" [] c = "P" -> "p" [] c = "S" -> "s"
      [] c = "N" -> "n" [] c = "G" -> "g" [] c = "J" -> "j" [] c = "A" -> "a"
      [] c = "W" -> "w" [] c = "V" -> "v" [] c = "M" -> "m" [] c = "O" -> "o"
      [] c = "C" -> "c" [] c = "X" -> "x"
      [] OTHER -> c

ToLower(s) == [i \in 1..Len(s) |-> LowerChar(s[i])]

\* %d of the numbers the code formats
Itoa(n) ==
    CASE n = 0 -> "0" [] n = 1 -> "1" [] n = 2 -> "2" [] n = 3 -> "3" [] n = 4 -> "4"
      [] n = 5 -> "5" [] n = 200 -> "200" [] n = 500 -> "500"
      [] OTHER -> "n"

\* ------------------------------------------------------------------- errors
\* An error is its text, a sequence of text pieces; nil is the empty sequence.
\* fmt.Errorf("...: %w", err) puts its own pieces before the wrapped text.
IsNil(err) == err = NoError

\* -------------------------------------------------------- extractImageURL
\* the last position of the run of [^\s)] characters that starts at j (j - 1 if none)
RECURSIVE RunEnd(_, _)
RunEnd(s, j) ==
    IF j <= Len(s) /\ ~IsSpace(s[j]) /\ s[j] # ")" THEN RunEnd(s, j + 1) ELSE j - 1

\* where the text after the scheme starts when https?:// stands at i, else 0
SchemeEnd(s, i) ==
    IF HasPrefixAt(s, i, Http) THEN i + Len(Http)
    ELSE IF HasPrefixAt(s, i, Https) THEN i + Len(Https)
    ELSE 0

\* imageURLPattern.FindAllString(content, -1) for `https?://[^\s)]+`, from position i
RECURSIVE FindAllFrom(_, _)
FindAllFrom(s, i) ==
    IF i > Len(s) THEN <<>>
    ELSE LET k == SchemeEnd(s, i)
         IN  IF k > 0 /\ RunEnd(s, k) >= k
             THEN <<SubSeq(s, i, RunEnd(s, k))>> \o FindAllFrom(s, RunEnd(s, k) + 1)
             ELSE FindAllFrom(s, i + 1)

\* the double quote and the backquote characters, written as tokens
DoubleQuote == "dquote"
BackQuote == "bquote"

\* the cutset of strings.Trim in extractImageURL: brackets, quotes, dot and comma
UrlCutset == {"[", "]", "(", ")", "<", ">", DoubleQuote, "'", BackQuote, ".", ","}

HasImageSuffix(lower) ==
    \/ Contains(lower, <<".", "p", "n", "g">>)
    \/ Contains(lower, <<".", "j", "p", "g">>)
    \/ Contains(lower, <<".", "j", "p", "e", "g">>)
    \/ Contains(lower, <<".", "w", "e", "b", "p">>)

\* the first match, cleaned, whose lower-cased form has an image suffix; <<>> if none
\* A variant that goes through the matches from the last to the first.
RECURSIVE FirstImageFromEnd(_, _)
FirstImageFromEnd(matches, i) ==
    IF i > Len(matches) THEN <<>>
    ELSE LET clean == Trim(matches[Len(matches) + 1 - i], UrlCutset)
         IN  IF HasImageSuffix(ToLower(clean)) THEN clean
             ELSE FirstImageFromEnd(matches, i + 1)

RECURSIVE FirstImage(_, _)
FirstImage(matches, i) ==
    IF i > Len(matches) THEN <<>>
    ELSE LET clean == Trim(matches[i], UrlCutset)
         IN  IF HasImageSuffix(ToLower(clean)) THEN clean ELSE FirstImage(matches, i + 1)

\* func extractImageURL(content string) (string, error)
\* A variant that falls back to the first match.
extractImageURLFirstFallback(content) ==
    LET matches == FindAllFrom(content, 1)
    IN  IF Len(matches) = 0
        THEN [url |-> <<>>, err |-> <<"no image link found">>]
        ELSE IF \E i \in 1..Len(matches) : HasImageSuffix(ToLower(Trim(matches[i], UrlCutset)))
        THEN [url |-> FirstImage(matches, 1), err |-> NoError]
        ELSE [url |-> Trim(matches[1], UrlCutset), err |-> NoError]

extractImageURL(content) ==
    LET matches == FindAllFrom(content, 1)
    IN  IF Len(matches) = 0
        THEN [url |-> <<>>, err |-> <<"no image link found">>]
        ELSE IF \E i \in 1..Len(matches) : HasImageSuffix(ToLower(Trim(matches[i], UrlCutset)))
        THEN [url |-> FirstImage(matches, 1), err |-> NoError]
        ELSE [url |-> Trim(matches[Len(matches)], UrlCutset), err |-> NoError]

\* the texts extractImageURL is applied to: pieces joined by single spaces. A piece
\* comes with what is known of it: the URL it holds, free of the brackets, quotes and
\* punctuation around it (empty if it holds none), and whether that URL has an image
\* suffix.
Piece(text, url, image) == [text |-> text, url |-> url, image |-> image]

Pieces ==
    {Piece(Http \o <<"a">>, Http \o <<"a">>, FALSE),
     Piece(<<"(">> \o Https \o <<"b", ")", ",">>, Https \o <<"b">>, FALSE),
     Piece(Https \o <<"f", "'">>, Https \o <<"f">>, FALSE),
     Piece(Http \o <<"c", ".", "p", "n", "g">>, Http \o <<"c", ".", "p", "n", "g">>, TRUE),
     Piece(<<"!", "[", "]", "(">> \o Https \o <<"d", ".", "J", "P", "G", ")">>,
           Https \o <<"d", ".", "J", "P", "G">>, TRUE),
     Piece(Http \o <<"e", ".", "w", "e", "b", "p", ".">>,
           Http \o <<"e", ".", "w", "e", "b", "p">>, TRUE),
     Piece(<<"s", "e", "e">>, <<>>, FALSE),
     Piece(Http, <<>>, FALSE)}

PieceLists == UNION {[1..n -> Pieces] : n \in 0..MaxParts}

\* strings.Join of the pieces' texts with a space
RECURSIVE TextOf(_)
TextOf(list) ==
    IF Len(list) = 0 THEN <<>>
    ELSE IF Len(list) = 1 THEN list[1].text
    ELSE list[1].text \o <<" ">> \o TextOf(Tail(list))

NotExtracted == [url |-> <<>>, err |-> <<"not applied">>]

\* no function is called; the call was not made yet
NoArg == [fn |-> "none"]
NoRet == [fn |-> "none"]

\* ------------------------------------------------------------ configuration
Empty == <<>>
Blank == <<" ">>
Slash == <<"/">>
ModelName == <<"m">>
BaseUrl == Http \o <<"p">>
ApiKey == <<"k">>
\* "gpt-4o-image", "qwen3-tts-flash"
DefaultImageModel == <<"g", "p", "t">>
DefaultVoiceModel == <<"q", "w", "e", "n">>
\* "https://apiqik.apifox.cn/7311242m0", "https://dashscope.aliyuncs.com"
DefaultLLMBaseURL == Https \o <<"q">>
DefaultVoiceBaseURL == Https \o <<"d">>

IsBlank(str) == TrimSpace(str) = Empty

\* config.json as the generation code reads it: the provider sections (the legacy
\* flat keys are absent), or no file at all
ConfigFiles ==
    {[present |-> TRUE,
      Image |-> [Model |-> im, BaseURL |-> ib, APIKey |-> ik],
      LLM |-> [BaseURL |-> lb, APIKey |-> lk],
      Voice |-> [Model |-> vm, BaseURL |-> vb, APIKey |-> vk]] :
        im \in {Empty, ModelName}, ib \in {Empty, Slash, BaseUrl}, ik \in {Empty, ApiKey},
        lb \in {Empty, BaseUrl}, lk \in {Empty, ApiKey},
        vm \in {Empty, ModelName}, vb \in {Blank, Slash, BaseUrl},
        vk \in {Empty, Blank, ApiKey}}
    \cup
    {[present |-> FALSE,
      Image |-> [Model |-> Empty, BaseURL |-> Empty, APIKey |-> Empty],
      LLM |-> [BaseURL |-> Empty, APIKey |-> Empty],
      Voice |-> [Model |-> Empty, BaseURL |-> Empty, APIKey |-> Empty]]}

\* defaultCfg of loadConfig
DefaultConfig ==
    [Image |-> [Model |-> DefaultImageModel, BaseURL |-> DefaultLLMBaseURL, APIKey |-> Empty],
     LLM |-> [BaseURL |-> DefaultLLMBaseURL, APIKey |-> Empty],
     Voice |-> [Model |-> DefaultVoiceModel, BaseURL |-> DefaultVoiceBaseURL, APIKey |-> Empty]]

\* func loadConfig() (Config, error), the configuration it returns for a readable file:
\* the defaults of a missing file, else the file with its blanks filled in
LoadedConfig(file) ==
    IF ~file.present THEN DefaultConfig
    ELSE [Image |->
             [Model |-> IF IsBlank(file.Image.Model) THEN DefaultImageModel ELSE file.Image.Model,
              BaseURL |-> IF IsBlank(file.Image.BaseURL) THEN file.LLM.BaseURL ELSE file.Image.BaseURL,
              APIKey |-> IF IsBlank(file.Image.APIKey) THEN file.LLM.APIKey ELSE file.Image.APIKey],
          LLM |-> file.LLM,
          Voice |->
             [Model |-> IF IsBlank(file.Voice.Model) THEN DefaultVoiceModel ELSE file.Voice.Model,
              BaseURL |-> IF IsBlank(file.Voice.BaseURL) THEN DefaultVoiceBaseURL ELSE file.Voice.BaseURL,
              APIKey |-> IF file.Voice.APIKey = Empty THEN file.LLM.APIKey ELSE file.Voice.APIKey]]

\* imageCfg of requestSceneImage: cfg.Image with the fallbacks to the LLM settings
ImageCfg(cfg) ==
    [Model |-> IF IsBlank(cfg.Image.Model) THEN DefaultImageModel ELSE cfg.Image.Model,
     BaseURL |-> IF IsBlank(cfg.Image.BaseURL) THEN cfg.LLM.BaseURL ELSE cfg.Image.BaseURL,
     APIKey |-> IF IsBlank(cfg.Image.APIKey) THEN cfg.LLM.APIKey ELSE cfg.Image.APIKey]

\* the checks of requestSceneImage and requestSceneAudio on the provider configuration
\* before any request is built: the error they return, nil when the configuration is
\* usable.
\* A variant that forgets the API key check.
ConfigErrorNoKeyCheck(pc, what) ==
    IF IsBlank(pc.Model) THEN <<what, "model not configured">>
    ELSE IF IsBlank(pc.BaseURL) THEN <<what, "base URL not configured">>
    ELSE IF TrimRight(pc.BaseURL, {"/"}) = Empty THEN <<what, "base URL invalid">>
    ELSE NoError

ConfigError(pc, what) ==
    IF IsBlank(pc.Model) THEN <<what, "model not configured">>
    ELSE IF IsBlank(pc.BaseURL) THEN <<what, "base URL not configured">>
    ELSE IF IsBlank(pc.APIKey) THEN <<what, "API key not configured">>
    ELSE IF TrimRight(pc.BaseURL, {"/"}) = Empty THEN <<what, "base URL invalid">>
    ELSE NoError

\* the effective provider configuration lacks a model, a base URL or an API key
LacksProviderConfig(pc) ==
    \/ TrimSpace(pc.Model) = Empty
    \/ TrimSpace(pc.BaseURL) = Empty
    \/ TrimSpace(pc.APIKey) = Empty

NoProviderCfg == [Model |-> Empty, BaseURL |-> Empty, APIKey |-> Empty]

\* ------------------------------------------------------- the image provider
UrlA == Http \o <<"a", ".", "p", "n", "g">>
UrlB == Https \o <<"b", ".", "J", "P", "G">>

\* what a call of the chat-completions endpoint can end in: a transport error, a
\* status other than 200 with a body, a body that is no JSON, or a completion with
\* its choices (the content of each)
Response(neterr, status, body, decodable, choices) ==
    [neterr |-> neterr, status |-> status, body |-> body,
     decodable |-> decodable, choices |-> choices]

\* the call ends without an answer
NoAnswer == Response(TRUE, 0, Empty, FALSE, <<>>)

ImageResponses ==
    {NoAnswer,
     Response(FALSE, 500, <<" ", "e">>, FALSE, <<>>),
     Response(FALSE, 200, Empty, FALSE, <<>>),
     Response(FALSE, 200, Empty, TRUE, <<>>),
     Response(FALSE, 200, Empty, TRUE, << <<"n", "o">> >>),
     Response(FALSE, 200, Empty, TRUE, << <<"(">> \o UrlA \o <<")">> >>),
     Response(FALSE, 200, Empty, TRUE, << <<" ">> \o UrlB \o <<".">> >>)}

CtxError == <<"Post", "context canceled">>

\* func doImageRequest(ctx, baseURL, apiKey, bodyBytes) (string, error) on the answer
\* resp of the provider; ctxDone: the context is cancelled before the answer is read
doImageRequest(ctxDone, resp) ==
    IF ctxDone THEN [result |-> Empty, err |-> CtxError]
    ELSE IF resp.neterr THEN [result |-> Empty, err |-> <<"Post", "connection refused">>]
    ELSE IF resp.status # 200
    THEN [result |-> Empty,
          err |-> <<"image service request failed, status", Itoa(resp.status)>>
                  \o TrimSpace(resp.body)]
    ELSE IF ~resp.decodable
    THEN [result |-> Empty, err |-> <<"decoding the response failed:", "invalid character">>]
    ELSE IF Len(resp.choices) = 0
    THEN [result |-> Empty, err |-> <<"image service returned no content">>]
    ELSE LET x == extractImageURL(TrimSpace(resp.choices[1]))
         IN  IF ~IsNil(x.err)
             THEN [result |-> Empty, err |-> <<"parsing the image link failed:">> \o x.err]
             ELSE [result |-> x.url, err |-> NoError]

\* the answer is a normalization failure: HTTP 200 and a decodable body from which no
\* artifact reference can be extracted
IsNormalizationFailure(resp) ==
    /\ ~resp.neterr /\ resp.status = 200 /\ resp.decodable
    /\ \/ Len(resp.choices) = 0
       \/ FindAllFrom(TrimSpace(resp.choices[1]), 1) = <<>>

\* the retry loop of requestSceneImage
\* for attempt := 1; attempt <= maxRetries; attempt++: another attempt follows a
\* failed one.
\* A variant whose bound is off by one.
MoreAttemptsOffByOne(attempt) == attempt + 1 <= maxRetries + 1

MoreAttempts(attempt) == attempt + 1 <= maxRetries

\* waitTime := time.Duration(attempt-1) * 2 * time.Second, in seconds
\* A variant that multiplies by the attempt number.
WaitTimeByAttempt(attempt) == attempt * BackoffUnit

WaitTime(attempt) == (attempt - 1) * BackoffUnit

\* lastErr after a failed attempt
\* A variant that keeps the first error.
NextLastErrKeepFirst(lastErr, err) == IF IsNil(lastErr) THEN err ELSE lastErr

NextLastErr(lastErr, err) == err

\* fmt.Errorf("... %d ...: %w", maxRetries, lastErr)
RetryError(lastErr) == <<"still failing after", Itoa(maxRetries), "attempts:">> \o lastErr

\* ------------------------------------------------------- the voice provider
\* A decoded JSON value: a string, an object (a function from its keys), a list, or
\* anything else (null, number, boolean).
Str(str) == [t |-> "str", s |-> str]
Obj(m) == [t |-> "map", m |-> m]
List(l) == [t |-> "list", l |-> l]
Null == [t |-> "null"]
NoKeys == [k \in {} |-> Null]

\* strings.TrimPrefix(s, prefix)
TrimPrefix(str, prefix) ==
    IF HasPrefix(str, prefix) THEN SubSeq(str, Len(prefix) + 1, Len(str)) ELSE str

Dot == <<".">>
Png == <<"p", "n", "g">>
Mp3 == <<"m", "p", "3">>
Wav == <<"w", "a", "v">>
Ogg == <<"o", "g", "g">>
M4a == <<"m", "4", "a">>
Aac == <<"a", "a", "c">>
DataAudio == <<"d", "a", "t", "a", ":", "a", "u", "d", "i", "o", "/">>
Base64Mark == <<";", "b", "a", "s", "e", "6", "4", ",">>

\* func stringFromMap(m map[string]any, keys ...string) (string, bool)
RECURSIVE stringFromMap(_, _)
stringFromMap(m, keys) ==
    IF Len(keys) = 0 THEN [s |-> Empty, ok |-> FALSE]
    ELSE IF keys[1] \in DOMAIN m /\ m[keys[1]].t = "str"
    THEN [s |-> m[keys[1]].s, ok |-> TRUE]
    ELSE stringFromMap(m, Tail(keys))

\* the end of the run of [^;] characters that starts at j (j - 1 if none)
RECURSIVE MimeEnd(_, _)
MimeEnd(str, j) == IF j <= Len(str) /\ str[j] # ";" THEN MimeEnd(str, j + 1) ELSE j - 1

\* func inferAudioExtensionFromData(data string, fallback string) string
\* A variant that looks at the fallback first.
inferAudioExtensionFromDataFormatFirst(data, fallback) ==
    LET lower == ToLower(TrimSpace(data))
        from == Len(DataAudio) + 1
        to == MimeEnd(lower, from)
    IN  IF TrimPrefix(fallback, Dot) # Empty THEN TrimPrefix(fallback, Dot)
        ELSE IF HasPrefix(lower, DataAudio) /\ to >= from /\ HasPrefixAt(lower, to + 1, Base64Mark)
        THEN SubSeq(lower, from, to)
        ELSE Mp3

inferAudioExtensionFromData(data, fallback) ==
    LET lower == ToLower(TrimSpace(data))
        from == Len(DataAudio) + 1
        to == MimeEnd(lower, from)
    IN  IF HasPrefix(lower, DataAudio) /\ to >= from /\ HasPrefixAt(lower, to + 1, Base64Mark)
        THEN SubSeq(lower, from, to)
        ELSE IF TrimPrefix(fallback, Dot) # Empty THEN TrimPrefix(fallback, Dot)
        ELSE Mp3

\* func inferAudioExtensionFromURL(url string, fallback string) string
inferAudioExtensionFromURL(url, fallback) ==
    LET urlLower == ToLower(url)
    IN  IF Contains(urlLower, Dot \o Mp3) THEN Mp3
        ELSE IF Contains(urlLower, Dot \o Wav) THEN Wav
        ELSE IF Contains(urlLower, Dot \o Ogg) THEN Ogg
        ELSE IF Contains(urlLower, Dot \o M4a) THEN M4a
        ELSE IF Contains(urlLower, Dot \o Aac) THEN Aac
        ELSE IF fallback # Empty THEN TrimPrefix(fallback, Dot)
        ELSE Mp3

NoAudio == [res |-> [Source |-> Empty, IsURL |-> FALSE, Extension |-> Empty], ok |-> FALSE]

\* func extractAudioFromMap(m map[string]any) (audioResult, bool)
extractAudioFromMap(m) ==
    LET ext == stringFromMap(m, <<"format", "audio_format", "audioExt">>)
        extension == IF ext.ok /\ ext.s # Empty THEN TrimPrefix(ext.s, Dot) ELSE Mp3
        audioStr == stringFromMap(m, <<"audio", "audio_data">>)
        urlStr == stringFromMap(m, <<"audio_url", "url">>)
    IN  IF audioStr.ok /\ TrimSpace(audioStr.s) # Empty
        THEN LET source == TrimSpace(audioStr.s)
             IN  IF HasPrefix(ToLower(source), Http) \/ HasPrefix(ToLower(source), Https)
                 THEN [res |-> [Source |-> source, IsURL |-> TRUE,
                                Extension |-> inferAudioExtensionFromURL(source, extension)],
                       ok |-> TRUE]
                 ELSE [res |-> [Source |-> source, IsURL |-> FALSE,
                                Extension |-> inferAudioExtensionFromData(source, extension)],
                       ok |-> TRUE]
        ELSE IF urlStr.ok /\ TrimSpace(urlStr.s) # Empty
        THEN [res |-> [Source |-> TrimSpace(urlStr.s), IsURL |-> TRUE,
                       Extension |-> inferAudioExtensionFromURL(TrimSpace(urlStr.s), extension)],
              ok |-> TRUE]
        ELSE NoAudio

\* m[key].(map[string]any) succeeds
HasObj(m, key) == key \in DOMAIN m /\ m[key].t = "map"
\* m[key].([]any) succeeds
HasList(m, key) == key \in DOMAIN m /\ m[key].t = "list"

\* the loops over results: the first item that is an object with audio in it
RECURSIVE FirstAudioIn(_)
FirstAudioIn(items) ==
    IF Len(items) = 0 THEN NoAudio
    ELSE IF items[1].t = "map" /\ extractAudioFromMap(items[1].m).ok
    THEN extractAudioFromMap(items[1].m)
    ELSE FirstAudioIn(Tail(items))

NoAudioError == <<"voice service returned no audio data">>

\* func parseDashscopeAudio(payload map[string]any) (audioResult, error); the payload
\* is the decoded body: an object, or nil for a body that is JSON null
\* A variant that looks into the top-level data before output.results.
parseDashscopeAudioDataFirst(payload) ==
    IF payload.t # "map" THEN [res |-> NoAudio.res, err |-> NoAudioError]
    ELSE LET m == payload.m
             output == IF HasObj(m, "output") THEN m["output"].m ELSE NoKeys
             nested == IF HasObj(output, "audio")
                       THEN extractAudioFromMap(output["audio"].m) ELSE NoAudio
             direct == IF HasObj(m, "output") THEN extractAudioFromMap(output) ELSE NoAudio
             listed == IF HasList(output, "results")
                       THEN FirstAudioIn(output["results"].l) ELSE NoAudio
             data == IF HasObj(m, "data") THEN extractAudioFromMap(m["data"].m) ELSE NoAudio
             top == IF HasList(m, "results") THEN FirstAudioIn(m["results"].l) ELSE NoAudio
         IN  IF nested.ok THEN [res |-> nested.res, err |-> NoError]
             ELSE IF direct.ok THEN [res |-> direct.res, err |-> NoError]
             ELSE IF data.ok THEN [res |-> data.res, err |-> NoError]
             ELSE IF listed.ok THEN [res |-> listed.res, err |-> NoError]
             ELSE IF top.ok THEN [res |-> top.res, err |-> NoError]
             ELSE [res |-> NoAudio.res, err |-> NoAudioError]

parseDashscopeAudio(payload) ==
    IF payload.t # "map" THEN [res |-> NoAudio.res, err |-> NoAudioError]
    ELSE LET m == payload.m
             output == IF HasObj(m, "output") THEN m["output"].m ELSE NoKeys
             nested == IF HasObj(output, "audio")
                       THEN extractAudioFromMap(output["audio"].m) ELSE NoAudio
             direct == IF HasObj(m, "output") THEN extractAudioFromMap(output) ELSE NoAudio
             listed == IF HasList(output, "results")
                       THEN FirstAudioIn(output["results"].l) ELSE NoAudio
             data == IF HasObj(m, "data") THEN extractAudioFromMap(m["data"].m) ELSE NoAudio
             top == IF HasList(m, "results") THEN FirstAudioIn(m["results"].l) ELSE NoAudio
         IN  IF nested.ok THEN [res |-> nested.res, err |-> NoError]
             ELSE IF direct.ok THEN [res |-> direct.res, err |-> NoError]
             ELSE IF listed.ok THEN [res |-> listed.res, err |-> NoError]
             ELSE IF data.ok THEN [res |-> data.res, err |-> NoError]
             ELSE IF top.ok THEN [res |-> top.res, err |-> NoError]
             ELSE [res |-> NoAudio.res, err |-> NoAudioError]

\* the decoded bodies parseDashscopeAudio is applied to: every combination of what
\* stands under output.audio, in output itself, under output.results, under data and
\* under results; the sources are told apart by their last character
Src(c) == Http \o <<"s", c>>

OutputAudios ==
    {NoKeys,
     "audio" :> Obj("url" :> Str(Src("a"))),
     "audio" :> Obj(NoKeys),
     "audio" :> Obj("audio" :> Str(Blank)),
     "audio" :> Null,
     "audio" :> Str(<<"A", "A">>)}

OutputFields == {NoKeys, "audio_url" :> Str(Src("b"))}

OutputResults ==
    {NoKeys,
     "results" :> List(<<>>),
     "results" :> List(<<Null, Obj(NoKeys), Obj("url" :> Str(Src("c"))),
                         Obj("url" :> Str(Src("d")))>>),
     "results" :> Str(Src("c"))}

Outputs ==
    {NoKeys, "output" :> Null}
        \cup {"output" :> Obj(a @@ f @@ r) :
                 a \in OutputAudios, f \in OutputFields, r \in OutputResults}

Datas ==
    {NoKeys,
     "data" :> Obj("audio_data" :> Str(Src("e"))),
     "data" :> Obj("url" :> Str(Blank))}

TopResults ==
    {NoKeys,
     "results" :> List(<<Obj("audio" :> Str(Blank)), Obj("audio_url" :> Str(Src("f"))),
                         Obj("url" :> Str(Src("g")))>>)}

Payloads == {Null} \cup {Obj(o @@ d @@ r) : o \in Outputs, d \in Datas, r \in TopResults}

\* the objects extractAudioFromMap is applied to: under each of the four keys nothing,
\* a blank string, a string or a value that is no string, with or without a format
Hello == <<"S", "G", "V", "s", "b", "G", "8", "=">>
DataWav == DataAudio \o Wav \o Base64Mark \o Hello
UpperUrl == <<"H", "T", "T", "P", "S", ":", "/", "/", "x">>

Under(key, values) == {NoKeys} \cup {key :> v : v \in values}

InlineValues == {Str(Blank), Str(<<"A", "A">>), Str(<<" ">> \o UpperUrl), Str(DataWav), Null}
UrlValues == {Str(Empty), Str(Src("u")), Null}

AudioObjects ==
    {a @@ b @@ c @@ d @@ f :
        a \in Under("audio", InlineValues), b \in Under("audio_data", InlineValues),
        c \in Under("audio_url", UrlValues), d \in Under("url", UrlValues),
        f \in Under("format", {Str(Dot \o Ogg)})}

UrlWav == Https \o <<"c", ".", "W", "A", "V">>

\* the payloads and the fallbacks inferAudioExtensionFromData is applied to
InlinePayloads ==
    {DataWav,
     <<" ">> \o DataWav,
     Hello,
     DataAudio \o Ogg \o Base64Mark \o Hello,
     DataAudio \o Base64Mark \o Hello,
     DataAudio \o Wav \o <<",">> \o Hello,
     DataAudio \o <<"x", ";", "y">> \o Base64Mark \o Hello,
     <<"d", "a", "t", "a", ":", "i", "m", "a", "g", "e", "/">> \o Png \o Base64Mark \o Hello}

Fallbacks == {Empty, Wav, Aac, Dot \o Ogg, Dot, Dot \o Dot \o Ogg}

\* the URLs inferAudioExtensionFromURL is applied to
ClipOgg == Http \o <<"x", "/", "y", "/", "c", "l", "i", "p">> \o Dot \o Ogg

AudioUrls ==
    {ClipOgg,
     Http \o <<"x", "/", "a", ".", "M", "4", "A">>,
     Http \o <<"x", "/", "a">> \o Dot \o Aac \o Dot \o Mp3,
     Http \o <<"x", "/", "a">> \o Dot \o Wav \o <<"?", "f", "=">> \o Dot \o Ogg,
     Http \o <<"x", "/", "a">> \o Dot \o Aac \o <<"?", "t", "=", "1">>,
     Http \o <<"x", "/", "c", "l", "i", "p">>,
     Http \o <<"x", "/", "a", ".", "m", "p", "4">>,
     UrlWav}

DataOgg == DataAudio \o Ogg \o Base64Mark \o <<"A", "A">>

\* what a call of the speech endpoint can end in
AudioResponse(neterr, status, body, decodable, payload) ==
    [neterr |-> neterr, status |-> status, body |-> body,
     decodable |-> decodable, payload |-> payload]

NoAudioAnswer == AudioResponse(TRUE, 0, Empty, FALSE, Null)

AudioResponses ==
    {NoAudioAnswer,
     AudioResponse(FALSE, 500, <<" ", "e">>, FALSE, Null),
     AudioResponse(FALSE, 200, Empty, FALSE, Null),
     AudioResponse(FALSE, 200, Empty, TRUE, Null),
     AudioResponse(FALSE, 200, Empty, TRUE, Obj([output |-> Obj([audio |-> Obj([data |-> Str(DataOgg)])])])),
     AudioResponse(FALSE, 200, Empty, TRUE, Obj([output |-> Obj([audio |-> Obj([url |-> Str(UrlWav)])])])),
     AudioResponse(FALSE, 200, Empty, TRUE, Obj([output |-> Obj([audio |-> Str(DataOgg), format |-> Str(Dot \o Wav)])])),
     AudioResponse(FALSE, 200, Empty, TRUE, Obj([results |-> List(<<Null, Obj([audio_url |-> Str(<<" ">> \o UrlA)])>>)]))}

\* func requestSceneAudio(ctx, cfg, scene) (audioResult, error) from client.Do on:
\* the answer resp of the provider; ctxDone: the context is cancelled before the answer
\* is read
doAudioRequest(ctxDone, resp) ==
    IF ctxDone THEN [result |-> NoAudio.res, err |-> CtxError]
    ELSE IF resp.neterr THEN [result |-> NoAudio.res, err |-> <<"Post", "connection refused">>]
    ELSE IF resp.status # 200
    THEN [result |-> NoAudio.res,
          err |-> <<"voice service request failed:">> \o TrimSpace(resp.body)]
    ELSE IF ~resp.decodable
    THEN [result |-> NoAudio.res, err |-> <<"invalid character">>]
    ELSE LET x == parseDashscopeAudio(resp.payload)
         IN  [result |-> x.res, err |-> x.err]

\* ------------------------------------------------ the image edit provider
\* what a call of the image edit endpoint can end in; payload is the decoded body
EditResponse(neterr, status, body, decodable, payload) ==
    [neterr |-> neterr, status |-> status, body |-> body,
     decodable |-> decodable, payload |-> payload]

\* response["choices"][0]["message"]["content"].(string): the content and whether
\* every type assertion on the way succeeds
ChoiceContent(m) ==
    IF /\ HasList(m, "choices")
       /\ Len(m["choices"].l) > 0
       /\ m["choices"].l[1].t = "map"
       /\ HasObj(m["choices"].l[1].m, "message")
       /\ "content" \in DOMAIN m["choices"].l[1].m["message"].m
       /\ m["choices"].l[1].m["message"].m["content"].t = "str"
    THEN [s |-> m["choices"].l[1].m["message"].m["content"].s, ok |-> TRUE]
    ELSE [s |-> Empty, ok |-> FALSE]

\* response["output"]["results"][0]["url"].(string), likewise
ResultUrl(m) ==
    IF /\ HasObj(m, "output")
       /\ HasList(m["output"].m, "results")
       /\ Len(m["output"].m["results"].l) > 0
       /\ m["output"].m["results"].l[1].t = "map"
       /\ "url" \in DOMAIN m["output"].m["results"].l[1].m
       /\ m["output"].m["results"].l[1].m["url"].t = "str"
    THEN [s |-> m["output"].m["results"].l[1].m["url"].s, ok |-> TRUE]
    ELSE [s |-> Empty, ok |-> FALSE]

NoEditUrlError == <<"image edit service returned no valid image URL">>

\* func doImageEditRequest(ctx, baseURL, apiKey string, bodyBytes []byte) (string, error)
\* from client.Do on, for the answer resp of the provider
\* A variant that reads output.results first.
doImageEditRequestResultsFirst(resp) ==
    IF resp.neterr THEN [url |-> Empty, err |-> <<"Post", "connection refused">>]
    ELSE IF resp.status # 200
    THEN [url |-> Empty,
          err |-> <<"image edit service request failed", Itoa(resp.status)>>
                      \o TrimSpace(resp.body)]
    ELSE IF ~resp.decodable
    THEN [url |-> Empty, err |-> <<"parsing the response failed:", "invalid character">>]
    ELSE LET m == IF resp.payload.t = "map" THEN resp.payload.m ELSE NoKeys
             content == ChoiceContent(m)
             found == extractImageURL(content.s)
             result == ResultUrl(m)
         IN  IF result.ok THEN [url |-> result.s, err |-> NoError]
             ELSE IF content.ok /\ IsNil(found.err) THEN [url |-> found.url, err |-> NoError]
             ELSE IF content.ok /\ HasPrefix(ToLower(content.s), <<"h", "t", "t", "p">>)
             THEN [url |-> content.s, err |-> NoError]
             ELSE [url |-> Empty, err |-> NoEditUrlError]

doImageEditRequest(resp) ==
    IF resp.neterr THEN [url |-> Empty, err |-> <<"Post", "connection refused">>]
    ELSE IF resp.status # 200
    THEN [url |-> Empty,
          err |-> <<"image edit service request failed", Itoa(resp.status)>>
                      \o TrimSpace(resp.body)]
    ELSE IF ~resp.decodable
    THEN [url |-> Empty, err |-> <<"parsing the response failed:", "invalid character">>]
    ELSE LET m == IF resp.payload.t = "map" THEN resp.payload.m ELSE NoKeys
             content == ChoiceContent(m)
             found == extractImageURL(content.s)
             result == ResultUrl(m)
         IN  IF content.ok /\ IsNil(found.err) THEN [url |-> found.url, err |-> NoError]
             ELSE IF content.ok /\ HasPrefix(ToLower(content.s), <<"h", "t", "t", "p">>)
             THEN [url |-> content.s, err |-> NoError]
             ELSE IF result.ok THEN [url |-> result.s, err |-> NoError]
             ELSE [url |-> Empty, err |-> NoEditUrlError]

\* the answers of the image edit endpoint
EditedPng == Https \o <<"e">> \o Dot \o Png

\* a body with content as its choices[0].message.content
WithContent(content) == "choices" :> List(<<Obj("message" :> Obj("content" :> content))>>)

EditResponses ==
    {EditResponse(TRUE, 0, Empty, FALSE, Null),
     EditResponse(FALSE, 500, <<" ", "e">>, FALSE, Null),
     EditResponse(FALSE, 200, Empty, FALSE, Null),
     EditResponse(FALSE, 200, Empty, TRUE, Null),
     EditResponse(FALSE, 200, Empty, TRUE, Obj(NoKeys)),
     EditResponse(FALSE, 200, Empty, TRUE, Obj("output" :> Obj(NoKeys))),
     EditResponse(FALSE, 200, Empty, TRUE, Obj("output" :> Obj("results" :> List(<<>>)))),
     EditResponse(FALSE, 200, Empty, TRUE,
                  Obj("output" :> Obj(WithContent(List(<<Obj("image" :> Str(EditedPng))>>))))),
     EditResponse(FALSE, 200, Empty, TRUE,
                  Obj("output" :> Obj(WithContent(List(<<Obj("text" :> Str(<<"o", "k">>)),
                                                        Obj("image" :> Str(EditedPng))>>))))),
     EditResponse(FALSE, 200, Empty, TRUE,
                  Obj("output" :> Obj(WithContent(List(<<Obj("text" :> Str(<<"o", "k">>))>>))))),
     EditResponse(FALSE, 200, Empty, TRUE,
                  Obj(WithContent(Str(<<"!", "[", "]", "(">> \o EditedPng \o <<")">>)))),
     EditResponse(FALSE, 200, Empty, TRUE, Obj(WithContent(Str(<<"H", "T", "T", "P", ":", "/", "/", "x">>)))),
     EditResponse(FALSE, 200, Empty, TRUE,
                  Obj(WithContent(Str(<<"!", "[", "]", "(">> \o EditedPng \o <<")">>))
                      @@ "output" :> Obj("results" :> List(<<Obj("url" :> Str(UrlA))>>)))),
     EditResponse(FALSE, 200, Empty, TRUE,
                  Obj(WithContent(Str(<<"n", "o">>))
                      @@ "output" :> Obj("results" :> List(<<Obj("url" :> Str(UrlA))>>)))),
     EditResponse(FALSE, 200, Empty, TRUE,
                  Obj("output" :> Obj("results" :> List(<<Obj("url" :> Str(UrlB))>>)))),
     EditResponse(FALSE, 200, Empty, TRUE, Obj("choices" :> List(<<>>)))}

\* ------------------------------------------------------ the materializer
\* the alphabet of base64.StdEncoding; a character stands for its position less one
B64Alphabet ==
    <<"A", "B", "C", "D", "E", "F", "G", "H", "I", "J", "K", "L", "M", "N", "O", "P",
      "Q", "R", "S", "T", "U", "V", "W", "X", "Y", "Z", "a", "b", "c", "d", "e", "f",
      "g", "h", "i", "j", "k", "l", "m", "n", "o", "p", "q", "r", "s", "t", "u", "v",
      "w", "x", "y", "z", "0", "1", "2", "3", "4", "5", "6", "7", "8", "9", "+", "/">>

IsB64(c) == \E i \in 1..Len(B64Alphabet) : B64Alphabet[i] = c

B64Val(c) == IF IsB64(c) THEN (CHOOSE i \in 1..Len(B64Alphabet) : B64Alphabet[i] = c) - 1 ELSE 0

\* the bytes of one group of four characters, the last of which may be padding; the
\* decoder does not look at the bits a padded group leaves over
DecodeQuantum(q) ==
    LET n == B64Val(q[1]) * 262144 + B64Val(q[2]) * 4096 + B64Val(q[3]) * 64 + B64Val(q[4])
        bytes == <<n \div 65536, (n \div 256) % 256, n % 256>>
    IN  IF \A i \in 1..4 : IsB64(q[i]) THEN [data |-> bytes, ok |-> TRUE, last |-> FALSE]
        ELSE IF IsB64(q[1]) /\ IsB64(q[2]) /\ IsB64(q[3]) /\ q[4] = "="
        THEN [data |-> SubSeq(bytes, 1, 2), ok |-> TRUE, last |-> TRUE]
        ELSE IF IsB64(q[1]) /\ IsB64(q[2]) /\ q[3] = "=" /\ q[4] = "="
        THEN [data |-> SubSeq(bytes, 1, 1), ok |-> TRUE, last |-> TRUE]
        ELSE [data |-> <<>>, ok |-> FALSE, last |-> TRUE]

\* base64.StdEncoding.DecodeString(s) for an s without line breaks: padding is
\* required, and nothing may follow a padded group
RECURSIVE DecodeString(_)
DecodeString(str) ==
    IF Len(str) = 0 THEN [data |-> <<>>, ok |-> TRUE]
    ELSE IF Len(str) < 4 THEN [data |-> <<>>, ok |-> FALSE]
    ELSE LET q == DecodeQuantum(SubSeq(str, 1, 4))
             rest == DecodeString(SubSeq(str, 5, Len(str)))
         IN  IF ~q.ok \/ (q.last /\ Len(str) > 4) \/ ~rest.ok
             THEN [data |-> <<>>, ok |-> FALSE]
             ELSE [data |-> q.data \o rest.data, ok |-> TRUE]

\* strings.Index(s, c) for a character c, counted from 1; 0 if c is not in s
IndexOfChar(str, c) ==
    IF \E i \in 1..Len(str) : str[i] = c
    THEN CHOOSE i \in 1..Len(str) : str[i] = c /\ \A j \in 1..(i - 1) : str[j] # c
    ELSE 0

\* strings.NewReplacer("\n", "", "\r", "").Replace(s)
RemoveLineBreaks(str) == SelectSeq(str, LAMBDA c : c \notin {"\n", "\r"})

DataScheme == <<"d", "a", "t", "a", ":">>

\* a file that does not exist
NoFile == [exists |-> FALSE, data |-> <<>>]
File(data) == [exists |-> TRUE, data |-> data]

\* func saveBase64ToFile(encoded, targetPath string) error, with the file at
\* targetPath before the call; os.WriteFile succeeds
saveBase64ToFile(encoded, before) ==
    LET trimmed == TrimSpace(encoded)
        idx == IndexOfChar(trimmed, ",")
        body == IF HasPrefix(trimmed, DataScheme) /\ idx # 0
                THEN SubSeq(trimmed, idx + 1, Len(trimmed))
                ELSE trimmed
        decoded == DecodeString(RemoveLineBreaks(body))
    IN  IF ~decoded.ok
        THEN [err |-> <<"decoding the Base64 data failed:", "illegal base64 data">>,
              file |-> before]
        ELSE [err |-> NoError, file |-> File(decoded.data)]

\* the payloads saveBase64ToFile is applied to
Encodeds ==
    {Hello,
     DataWav,
     <<" ">> \o DataWav \o <<"\n">>,
     <<"S", "G", "V", "s", "\n", "b", "G", "8", "=">>,
     <<"S", "G", "V", "s", "\r", "\n", "b", "G", "8", "=", "\r", "\n">>,
     <<"S", "G", "V", "s", " ", "b", "G", "8", "=">>,
     <<"S", "G", "V", "s", "\t", "b", "G", "8", "=">>,
     DataAudio \o Wav \o Base64Mark \o <<" ">> \o Hello,
     <<"S", "G", "V", "s", "b", "G", "8">>,
     <<"S", "G", "V", "*", "b", "G", "8", "=">>,
     <<"Q", "Q", "=", "=", "Q", "Q", "=", "=">>,
     <<"Q", "Q", "=", "=">>,
     <<"Q", "U", "I", "=">>,
     Empty,
     DataAudio \o Wav \o <<";", "b", "a", "s", "e", "6", "4">>}

\* the file at the target before the call
FilesBefore == {NoFile, File(<<1>>)}

\* ------------------------------------------------------------- the stores
runVars == <<scenesFile, files, lastStamp, h, calls, sleeps, events, runCount>>

generatedImagesURLPrefix == "/generated/images/"
generatedAudioURLPrefix == "/generated/audio/"
generatedImagesDir == "generated/images"
generatedAudioDir == "generated/audio"

\* A path is a sequence of pieces: the route prefix or the directory, then the pieces
\* of the file name.
\* fmt.Sprintf("scene_%02d_%d.png", index+1, time.Now().Unix())
SceneFileName(index, stamp, ext) == <<"scene_", Itoa(index + 1), "_", Itoa(stamp)>> \o ext

\* the directories around the generated ones, and the collection file
projectRoot == "."
configDir == "config"
generatedDir == "generated"
scenesPath == <<configDir, "scenes.json">>

\* the pieces of a name that lead to another directory
ParentPiece == "../"
ImagesPiece == "images/"
AudioPiece == "audio/"
ConfigPiece == "config/"

\* the directory above dir
ParentDir(dir) ==
    IF dir \in {generatedImagesDir, generatedAudioDir} THEN generatedDir ELSE projectRoot

\* the directories below dir, by the piece that names them
ChildDirs(dir) ==
    IF dir = generatedDir
    THEN (ImagesPiece :> generatedImagesDir) @@ (AudioPiece :> generatedAudioDir)
    ELSE IF dir = projectRoot
    THEN ("generated/" :> generatedDir) @@ (ConfigPiece :> configDir)
    ELSE <<>>

\* filepath.Join(dir, filename): the joined path is cleaned, a ".." piece of the name
\* leads to the directory above
RECURSIVE JoinPath(_, _)
JoinPath(dir, filename) ==
    IF filename = <<>> THEN <<dir>>
    ELSE IF Head(filename) = ParentPiece THEN JoinPath(ParentDir(dir), Tail(filename))
    ELSE IF Head(filename) \in DOMAIN ChildDirs(dir)
    THEN JoinPath(ChildDirs(dir)[Head(filename)], Tail(filename))
    ELSE <<dir>> \o filename

Scene(title, description, dialogues, narration, imagePath, audioPath) ==
    [Title |-> title, Description |-> description, Dialogues |-> dialogues,
     Narration |-> narration, ImagePath |-> imagePath, AudioPath |-> audioPath]

NoScene == Scene(Empty, Empty, <<>>, Empty, Empty, Empty)

\* func normalizeScenes(scenes []Scene) []Scene
normalizeScenes(scenes) ==
    [i \in 1..Len(scenes) |->
        [scenes[i] EXCEPT !.Title = TrimSpace(@), !.Description = TrimSpace(@),
                          !.Narration = TrimSpace(@), !.ImagePath = TrimSpace(@),
                          !.AudioPath = TrimSpace(@),
                          !.Dialogues = [k \in 1..Len(@) |-> TrimSpace(@[k])]]]

\* How a call of removeGeneratedFile ends: it returns early ("noprefix", "noname"),
\* os.Remove finds no file ("gone"), removes the file ("removed") or fails otherwise
\* ("error", logged); removeOK is whether os.Remove can remove a file that exists.
RemoveStatus(fs, relPath, prefix, dir, removeOK) ==
    IF ~HasPrefix(relPath, <<prefix>>) THEN "noprefix"
    ELSE LET filename == SubSeq(relPath, 2, Len(relPath))
         IN  IF filename = Empty THEN "noname"
             ELSE IF JoinPath(dir, filename) \notin fs THEN "gone"
             ELSE IF removeOK THEN "removed"
             ELSE "error"

\* func removeGeneratedFile(relPath, prefix, dir string): the files afterwards
\* A variant that removes nothing.
removeGeneratedFileKeep(fs, relPath, prefix, dir, removeOK) == fs

\* A variant that does not look at the prefix.
removeGeneratedFileAnyPrefix(fs, relPath, prefix, dir, removeOK) ==
    IF Len(relPath) > 1 /\ removeOK
    THEN fs \ {JoinPath(dir, SubSeq(relPath, 2, Len(relPath)))}
    ELSE fs

removeGeneratedFile(fs, relPath, prefix, dir, removeOK) ==
    IF RemoveStatus(fs, relPath, prefix, dir, removeOK) = "removed"
    THEN fs \ {JoinPath(dir, SubSeq(relPath, 2, Len(relPath)))}
    ELSE fs

\* the calls of removeGeneratedFile: the files on disk, the path of a record and the
\* route prefix and directory of removeGeneratedImage or removeGeneratedAudio
OldName == SceneFileName(0, 1, Dot \o Png)
OtherName == SceneFileName(1, 1, Dot \o Png)

FilesOnDisk ==
    SUBSET {JoinPath(generatedImagesDir, OldName), JoinPath(generatedImagesDir, OtherName),
            JoinPath(generatedAudioDir, OldName), scenesPath}

RelPaths ==
    {Empty,
     <<generatedImagesURLPrefix>>,
     <<generatedImagesURLPrefix>> \o OldName,
     <<generatedImagesURLPrefix>> \o OtherName,
     <<generatedAudioURLPrefix>> \o OldName,
     <<"/uploads/">> \o OldName,
     <<generatedImagesURLPrefix, ParentPiece, AudioPiece>> \o OldName,
     <<generatedAudioURLPrefix, ParentPiece, ParentPiece, ConfigPiece, "scenes.json">>,
     OldName}

Removers ==
    {[prefix |-> generatedImagesURLPrefix, dir |-> generatedImagesDir],
     [prefix |-> generatedAudioURLPrefix, dir |-> generatedAudioDir]}

\* strings.Join(scene.Dialogues, " ")
RECURSIVE JoinWithSpace(_)
JoinWithSpace(list) ==
    IF Len(list) = 0 THEN Empty
    ELSE IF Len(list) = 1 THEN list[1]
    ELSE list[1] \o <<" ">> \o JoinWithSpace(Tail(list))

\* func buildSceneSpeechText(scene Scene) string
buildSceneSpeechText(scene) ==
    IF TrimSpace(scene.Narration) # Empty THEN TrimSpace(scene.Narration)
    ELSE IF Len(scene.Dialogues) > 0 THEN JoinWithSpace(scene.Dialogues)
    ELSE IF TrimSpace(scene.Description) # Empty THEN TrimSpace(scene.Description)
    ELSE TrimSpace(scene.Title)

\* the scenes buildSceneSpeechText is applied to
SpokenScenes ==
    {Scene(t, d, l, n, Empty, Empty) :
        t \in {Empty, <<" ", "T">>},
        d \in {Empty, Blank, <<"d">>},
        l \in {<<>>, <<Empty>>, <<Empty, Empty>>, <<<<"a">>>>, <<<<"a">>, <<"b">>>>},
        n \in {Empty, Blank, <<" ", "n", " ">>}}

\* the scene collection and the artifacts the behaviours start from: a scene with a
\* description, a narration and an image and an audio file of an earlier generation,
\* a scene without any text, and a scene whose image path a client set to a path
\* outside the generated images and whose audio file is no longer on disk
PriorImage == <<generatedImagesURLPrefix>> \o SceneFileName(0, 1, Dot \o Png)
PriorAudio == <<generatedAudioURLPrefix>> \o SceneFileName(0, 1, Dot \o Mp3)

ForeignImage == <<"/uploads/", "x">> \o Dot \o Png
LostAudio == <<generatedAudioURLPrefix>> \o SceneFileName(2, 1, Dot \o Mp3)

InitialScenes ==
    << Scene(<<"T">>, <<"d">>, <<>>, <<"n">>, PriorImage, PriorAudio),
       Scene(Empty, Blank, <<>>, Empty, Empty, Empty),
       Scene(Empty, <<"e">>, <<>>, Empty, ForeignImage, LostAudio) >>

InitialFiles ==
    {JoinPath(generatedImagesDir, SceneFileName(0, 1, Dot \o Png)),
     JoinPath(generatedAudioDir, SceneFileName(0, 1, Dot \o Mp3))}

\* ------------------------------------------------------------ the handler run
NoResp == [status |-> 0, err |-> NoError]
NoRef == [Source |-> Empty, IsURL |-> FALSE, Extension |-> Empty]

IdleFrame ==
    [pc |-> "idle", kind |-> "none", taskID |-> "", index |-> 0, scene |-> NoScene,
     scenes |-> <<>>, ctxDone |-> FALSE, provCfg |-> NoProviderCfg, attempt |-> 0,
     lastErr |-> NoError, ref |-> NoRef, absPath |-> Empty, relPath |-> Empty,
     prior |-> Empty, cleanup |-> "none", mats |-> <<>>, err |-> NoError, resp |-> NoResp]

RunInit ==
    /\ scenesFile = InitialScenes
    /\ files = InitialFiles
    /\ lastStamp = 1
    /\ h = IdleFrame
    /\ calls = <<>>
    /\ sleeps = <<>>
    /\ events = <<>>
    /\ runCount = 0

\* http.Error(w, text, status) and return
Respond(frame, status, err) ==
    [frame EXCEPT !.pc = "done", !.resp = [status |-> status, err |-> err]]

\* tracker.publish(update) by the run
RunPublish(update) ==
    /\ publish(update)
    /\ events' = Append(events, update)
    /\ UNCHANGED recvCount

NoPublish == UNCHANGED <<hubVars, events>>

Kinds == {"image", "audio"}
Methods == {"POST", "GET"}
\* payload.Index of a decodable request body
Indexes == {-1, 0, 1, 2, 3}
\* payload.TaskID of a decodable request body
RunTaskIds == {"", "t1"}

\* the stage names and messages of the two handlers
\* A variant that names the two middle stages the other way round.
StageNameSwapped(kind, stage) ==
    IF stage = "generating"
    THEN IF kind = "image" THEN <<"downloading", "image">> ELSE <<"downloading", "audio">>
    ELSE IF stage = "downloading"
    THEN IF kind = "image" THEN <<"generating", "image">> ELSE <<"generating", "audio">>
    ELSE <<stage>>

StageName(kind, stage) ==
    IF stage \in {"generating", "downloading"}
    THEN IF kind = "image" THEN <<stage, "image">> ELSE <<stage, "audio">>
    ELSE <<stage>>

\* the check of the scene's text before any event is published
HasNoText(kind, scene) ==
    IF kind = "image" THEN TrimSpace(scene.Description) = Empty
    ELSE buildSceneSpeechText(scene) = Empty

\* generateSceneImageHandler / generateSceneAudioHandler from the request to the
\* "preparing" event: method, body, index, loadScenesData, index range, text.
\* An invalid request is answered without any event.
HandlerStart ==
    /\ UNCHANGED <<pureVars, procVars>>
    /\ h.pc = "idle"
    /\ runCount < MaxRuns
    /\ runCount' = runCount + 1
    /\ calls' = <<>>
    /\ sleeps' = <<>>
    /\ UNCHANGED <<scenesFile, files, lastStamp>>
    /\ \E kind \in Kinds, method \in Methods, bodyOK \in BOOLEAN, index \in Indexes,
          tid \in RunTaskIds, loadOK \in BOOLEAN :
          LET taskID == IF tid = "" THEN GenTaskId ELSE tid
              scenes == normalizeScenes(scenesFile)
              f0 == [IdleFrame EXCEPT !.kind = kind]
              f1 == [f0 EXCEPT !.taskID = taskID, !.index = index]
          IN  IF method # "POST"
              THEN /\ h' = Respond(f0, 405, <<"method not allowed">>)
                   /\ events' = <<>> /\ UNCHANGED hubVars
              ELSE IF ~bodyOK
              THEN /\ h' = Respond(f0, 400, <<"invalid request data">>)
                   /\ events' = <<>> /\ UNCHANGED hubVars
              ELSE IF index < 0
              THEN /\ h' = Respond([f0 EXCEPT !.taskID = tid, !.index = index], 400,
                                   <<"invalid scene index">>)
                   /\ events' = <<>> /\ UNCHANGED hubVars
              ELSE IF ~loadOK
              THEN /\ h' = Respond(f1, 500, <<"reading the scenes failed:", "read error">>)
                   /\ events' = <<>> /\ UNCHANGED hubVars
              ELSE IF index >= Len(scenes)
              THEN /\ h' = Respond([f1 EXCEPT !.scenes = scenes], 400,
                                   <<"scene index out of range">>)
                   /\ events' = <<>> /\ UNCHANGED hubVars
              ELSE IF HasNoText(kind, scenes[index + 1])
              THEN /\ h' = Respond([f1 EXCEPT !.scenes = scenes,
                                              !.scene = scenes[index + 1]], 400,
                                   <<"scene has no text to generate from">>)
                   /\ events' = <<>> /\ UNCHANGED hubVars
              ELSE /\ h' = [f1 EXCEPT !.scenes = scenes, !.scene = scenes[index + 1],
                                      !.pc = "loadConfig"]
                   /\ publish(Update(taskID, <<"preparing">>, "preparing", 10, FALSE, NoError))
                   /\ events' = <<Update(taskID, <<"preparing">>, "preparing", 10, FALSE, NoError)>>
                   /\ UNCHANGED recvCount

\* the terminal update of a failing run
\* A variant that leaves the error text out.
ErrorUpdateNoText(taskID, message, err) ==
    Update(taskID, <<"error">>, message, 0, TRUE, NoError)

ErrorUpdate(taskID, message, err) ==
    Update(taskID, <<"error">>, message, 0, TRUE, err)

\* the terminal update of a successful run
CompletedUpdate(taskID) ==
    Update(taskID, <<"completed">>, "generation completed", 100, TRUE, NoError)

\* err.Error() of an error value: the text; an error with an empty text does not occur
ErrorText(err) == err

\* the effective provider configuration generateScene* works with
ProviderCfg(kind, cfg) == IF kind = "image" THEN ImageCfg(cfg) ELSE cfg.Voice

\* what a handler of this kind gets out of loadConfig() for the files config.json
\* may be: whether the file was there, the effective provider configuration, and
\* whether the voice API key is blank
LoadOutcomes(kind) ==
    {[present |-> file.present,
      provCfg |-> ProviderCfg(kind, LoadedConfig(file)),
      voiceKeyBlank |-> TrimSpace(LoadedConfig(file).Voice.APIKey) = Empty] :
        file \in ConfigFiles}

\* cfg, err := loadConfig() and what follows up to the "generating" event: the
\* voice API key check of the audio handler, ensureDir of generateScene*.
\* A missing config.json is created with the defaults, and scenes.json is reset.
LoadConfig ==
    /\ UNCHANGED <<pureVars, procVars>>
    /\ h.pc = "loadConfig"
    /\ UNCHANGED <<files, lastStamp, calls, sleeps, runCount>>
    /\ \/ /\ h' = Respond(h, 500, <<"reading the configuration failed:", "read error">>)
          /\ RunPublish(ErrorUpdate(h.taskID, "reading the configuration failed",
                                    ErrorText(<<"read error">>)))
          /\ UNCHANGED scenesFile
       \/ \E loaded \in LoadOutcomes(h.kind), dirOK \in BOOLEAN :
             LET withCfg == [h EXCEPT !.provCfg = loaded.provCfg]
             IN  /\ scenesFile' = IF loaded.present THEN scenesFile ELSE <<>>
                 /\ IF h.kind = "audio" /\ loaded.voiceKeyBlank
                    THEN /\ h' = Respond(withCfg, 400, <<"fill in the voice API key first">>)
                         /\ RunPublish(ErrorUpdate(h.taskID, "voice API key not configured",
                                                   <<"fill in the voice API key first">>))
                    ELSE IF ~dirOK
                    THEN /\ h' = [withCfg EXCEPT !.pc = "fail", !.err = <<"mkdir failed">>]
                         /\ NoPublish
                    ELSE /\ h' = [withCfg EXCEPT !.pc = "request"]
                         /\ RunPublish(Update(h.taskID, StageName(h.kind, "generating"),
                                              "generating", 30, FALSE, NoError))

\* requestSceneImage / requestSceneAudio up to the first provider call: the checks
\* of the provider configuration
RequestStart ==
    /\ UNCHANGED <<pureVars, procVars>>
    /\ h.pc = "request"
    /\ LET e == ConfigError(h.provCfg, h.kind)
       IN  h' = IF ~IsNil(e) THEN [h EXCEPT !.pc = "fail", !.err = e]
                ELSE IF h.kind = "image" THEN [h EXCEPT !.pc = "attempt", !.attempt = 1]
                ELSE [h EXCEPT !.pc = "audioCall"]
    /\ NoPublish
    /\ UNCHANGED <<scenesFile, files, lastStamp, calls, sleeps, runCount>>

\* time.Now().Unix(): not before the last value read
Stamps == {t \in lastStamp..(lastStamp + 1) : t <= MaxStamp}

\* generateScene* from the provider's result to the download: the "downloading" event,
\* the file name, the removal of the scene's previous artifact
\* A variant that returns an error when the previous artifact could not be removed.
AfterRequestCleanupFatal(ref, stamp, removeOK) ==
    LET old == IF h.kind = "image" THEN h.scene.ImagePath ELSE h.scene.AudioPath
        prefix == IF h.kind = "image" THEN generatedImagesURLPrefix ELSE generatedAudioURLPrefix
        dir == IF h.kind = "image" THEN generatedImagesDir ELSE generatedAudioDir
        status == IF old # Empty THEN RemoveStatus(files, old, prefix, dir, removeOK)
                  ELSE "none"
    IN  /\ h' = [h EXCEPT !.pc = IF status \in {"none", "removed"} THEN "materialize"
                                 ELSE "fail",
                          !.err = IF status \in {"none", "removed"} THEN NoError
                                  ELSE <<"removing the previous file failed">>,
                          !.ref = ref,
                          !.absPath = JoinPath(dir, SceneFileName(h.index, stamp, Dot \o Png)),
                          !.relPath = <<prefix>> \o SceneFileName(h.index, stamp, Dot \o Png),
                          !.prior = old,
                          !.cleanup = status]
        /\ lastStamp' = stamp
        /\ files' = IF old # Empty THEN removeGeneratedFile(files, old, prefix, dir, removeOK)
                    ELSE files
        /\ RunPublish(Update(h.taskID, StageName(h.kind, "downloading"),
                             "saving", 70, FALSE, NoError))

AfterRequest(ref, stamp, removeOK) ==
    LET ext == IF h.kind = "image" THEN Dot \o Png
               ELSE IF ref.Extension # Empty THEN Dot \o TrimPrefix(ref.Extension, Dot)
               ELSE Dot \o Mp3
        filename == SceneFileName(h.index, stamp, ext)
        old == IF h.kind = "image" THEN h.scene.ImagePath ELSE h.scene.AudioPath
        prefix == IF h.kind = "image" THEN generatedImagesURLPrefix ELSE generatedAudioURLPrefix
        dir == IF h.kind = "image" THEN generatedImagesDir ELSE generatedAudioDir
    IN  /\ h' = [h EXCEPT !.pc = "materialize", !.ref = ref,
                          !.absPath = JoinPath(dir, filename),
                          !.relPath = <<prefix>> \o filename,
                          !.prior = old,
                          !.cleanup = IF old # Empty
                                      THEN RemoveStatus(files, old, prefix, dir, removeOK)
                                      ELSE "none"]
        /\ lastStamp' = stamp
        /\ files' = IF old # Empty THEN removeGeneratedFile(files, old, prefix, dir, removeOK)
                    ELSE files
        /\ RunPublish(Update(h.taskID, StageName(h.kind, "downloading"),
                             "saving", 70, FALSE, NoError))

\* the reference requestSceneImage returns for the text doImageRequest extracted
ImageRef(result) ==
    [Source |-> result,
     IsURL |-> HasPrefix(ToLower(result), Http) \/ HasPrefix(ToLower(result), Https),
     Extension |-> Empty]

\* one pass of the loop of requestSceneImage: the provider call of this attempt and
\* what the loop does with its outcome; a call under a cancelled context gets no answer
Attempt ==
    /\ UNCHANGED <<pureVars, procVars>>
    /\ h.pc = "attempt"
    /\ UNCHANGED <<scenesFile, sleeps, runCount>>
    /\ \E resp \in (IF h.ctxDone THEN {NoAnswer} ELSE ImageResponses) :
          LET r == doImageRequest(h.ctxDone, resp)
              call == [attempt |-> h.attempt, ctxDone |-> h.ctxDone, resp |-> resp,
                       err |-> r.err, result |-> r.result]
          IN  /\ calls' = Append(calls, call)
              /\ IF IsNil(r.err)
                 THEN \E stamp \in Stamps, removeOK \in BOOLEAN :
                          AfterRequest(ImageRef(r.result), stamp, removeOK)
                 ELSE /\ h' = IF MoreAttempts(h.attempt)
                              THEN [h EXCEPT !.pc = "backoff",
                                             !.lastErr = NextLastErr(h.lastErr, r.err)]
                              ELSE [h EXCEPT !.pc = "fail",
                                             !.lastErr = NextLastErr(h.lastErr, r.err),
                                             !.err = RetryError(NextLastErr(h.lastErr, r.err))]
                      /\ NoPublish
                      /\ UNCHANGED <<files, lastStamp>>

\* the provider call of requestSceneAudio and what generateSceneAudio does with its
\* outcome
AudioCall ==
    /\ UNCHANGED <<pureVars, procVars>>
    /\ h.pc = "audioCall"
    /\ UNCHANGED <<scenesFile, sleeps, runCount>>
    /\ \E resp \in (IF h.ctxDone THEN {NoAudioAnswer} ELSE AudioResponses) :
          LET r == doAudioRequest(h.ctxDone, resp)
              call == [attempt |-> 1, ctxDone |-> h.ctxDone, resp |-> resp,
                       err |-> r.err, result |-> r.result.Source]
          IN  /\ calls' = Append(calls, call)
              /\ IF IsNil(r.err)
                 THEN \E stamp \in Stamps, removeOK \in BOOLEAN :
                          AfterRequest(r.result, stamp, removeOK)
                 ELSE /\ h' = [h EXCEPT !.pc = "fail", !.err = r.err]
                      /\ NoPublish
                      /\ UNCHANGED <<files, lastStamp>>

\* attempt++ and the time.Sleep(waitTime) before the next attempt
Backoff ==
    /\ UNCHANGED <<pureVars, procVars>>
    /\ h.pc = "backoff"
    /\ h' = [h EXCEPT !.pc = "attempt", !.attempt = h.attempt + 1]
    /\ sleeps' = Append(sleeps, [attempt |-> h.attempt + 1, dur |-> WaitTime(h.attempt + 1),
                                 ctxDone |-> h.ctxDone])
    /\ NoPublish
    /\ UNCHANGED <<scenesFile, files, lastStamp, calls, runCount>>

\* downloadToFile(ctx, ref, absPath) or saveBase64ToFile(ref, absPath); mats is the
\* history of the run's materializations: whether each was a download, and whether
\* the context was cancelled by then
\* A variant whose download does not look at the context.
MaterializeIgnoresCtx ==
    /\ UNCHANGED <<pureVars, procVars>>
    /\ h.pc = "materialize"
    /\ NoPublish
    /\ UNCHANGED <<scenesFile, lastStamp, calls, sleeps, runCount>>
    /\ h' = [h EXCEPT !.pc = "save",
                      !.mats = Append(@, [network |-> h.ref.IsURL, ctxDone |-> h.ctxDone])]
    /\ files' = files \cup {h.absPath}

\* A variant that tries a failed materialization a second time.
MaterializeAgain ==
    /\ UNCHANGED <<pureVars, procVars>>
    /\ h.pc = "materialize"
    /\ NoPublish
    /\ UNCHANGED <<scenesFile, lastStamp, calls, sleeps, runCount>>
    /\ \E ok \in BOOLEAN :
          LET m == [h EXCEPT !.mats = Append(@, [network |-> h.ref.IsURL,
                                                 ctxDone |-> h.ctxDone])]
          IN  IF h.ref.IsURL /\ h.ctxDone
              THEN /\ h' = [m EXCEPT !.pc = "fail", !.err = <<"Get", "context canceled">>]
                   /\ UNCHANGED files
              ELSE IF ~ok
              THEN /\ h' = IF Len(h.mats) = 0 THEN m
                           ELSE [m EXCEPT !.pc = "fail",
                                          !.err = IF h.ref.IsURL THEN <<"download failed:">>
                                                  ELSE <<"decoding the Base64 data failed:">>]
                   /\ UNCHANGED files
              ELSE /\ h' = [m EXCEPT !.pc = "save"]
                   /\ files' = files \cup {h.absPath}

Materialize ==
    /\ UNCHANGED <<pureVars, procVars>>
    /\ h.pc = "materialize"
    /\ NoPublish
    /\ UNCHANGED <<scenesFile, lastStamp, calls, sleeps, runCount>>
    /\ \E ok \in BOOLEAN :
          LET m == [h EXCEPT !.mats = Append(@, [network |-> h.ref.IsURL,
                                                 ctxDone |-> h.ctxDone])]
          IN  IF h.ref.IsURL /\ h.ctxDone
              THEN /\ h' = [m EXCEPT !.pc = "fail", !.err = <<"Get", "context canceled">>]
                   /\ UNCHANGED files
              ELSE IF ~ok
              THEN /\ h' = [m EXCEPT !.pc = "fail",
                                     !.err = IF h.ref.IsURL THEN <<"download failed:">>
                                             ELSE <<"decoding the Base64 data failed:">>]
                   /\ UNCHANGED files
              ELSE /\ h' = [m EXCEPT !.pc = "save"]
                   /\ files' = files \cup {h.absPath}

\* the handler after generateScene* returned an error
Fail ==
    /\ UNCHANGED <<pureVars, procVars>>
    /\ h.pc = "fail"
    /\ h' = Respond(h, 500, <<"generating failed:">> \o h.err)
    /\ RunPublish(ErrorUpdate(h.taskID, "generating failed", ErrorText(h.err)))
    /\ UNCHANGED <<scenesFile, files, lastStamp, calls, sleeps, runCount>>

\* the scene with the new artifact path
WithArtifact(kind, scene, relPath) ==
    IF kind = "image" THEN [scene EXCEPT !.ImagePath = relPath]
    ELSE [scene EXCEPT !.AudioPath = relPath]

\* the handler after generateScene* returned a path: saveScenesData(scenes), then the
\* terminal event and the response
\* A variant that publishes the completed event whether or not the save succeeded.
SaveAlwaysCompleted ==
    /\ UNCHANGED <<pureVars, procVars>>
    /\ h.pc = "save"
    /\ UNCHANGED <<files, lastStamp, calls, sleeps, runCount>>
    /\ \E ok \in BOOLEAN :
          LET scene == WithArtifact(h.kind, h.scene, h.relPath)
              scenes == [h.scenes EXCEPT ![h.index + 1] = scene]
          IN  IF ok
              THEN /\ scenesFile' = normalizeScenes(scenes)
                   /\ h' = [Respond(h, 200, NoError) EXCEPT !.scene = scene, !.scenes = scenes]
                   /\ RunPublish(CompletedUpdate(h.taskID))
              ELSE /\ UNCHANGED scenesFile
                   /\ h' = [Respond(h, 500, <<"saving the scenes failed:", "write error">>)
                               EXCEPT !.scene = scene, !.scenes = scenes]
                   /\ RunPublish(CompletedUpdate(h.taskID))

Save ==
    /\ UNCHANGED <<pureVars, procVars>>
    /\ h.pc = "save"
    /\ UNCHANGED <<files, lastStamp, calls, sleeps, runCount>>
    /\ \E ok \in BOOLEAN :
          LET scene == WithArtifact(h.kind, h.scene, h.relPath)
              scenes == [h.scenes EXCEPT ![h.index + 1] = scene]
          IN  IF ok
              THEN /\ scenesFile' = normalizeScenes(scenes)
                   /\ h' = [Respond(h, 200, NoError) EXCEPT !.scene = scene, !.scenes = scenes]
                   /\ RunPublish(CompletedUpdate(h.taskID))
              ELSE /\ UNCHANGED scenesFile
                   /\ h' = [Respond(h, 500, <<"saving the scenes failed:", "write error">>)
                               EXCEPT !.scene = scene, !.scenes = scenes]
                   /\ RunPublish(ErrorUpdate(h.taskID, "saving the scenes failed",
                                             ErrorText(<<"write error">>)))

\* the request's context is cancelled (the client went away) while the handler runs
CancelCtx ==
    /\ UNCHANGED <<pureVars, procVars>>
    /\ h.pc \in {"loadConfig", "request", "attempt", "backoff", "audioCall", "materialize"}
    /\ ~h.ctxDone
    /\ h' = [h EXCEPT !.ctxDone = TRUE]
    /\ NoPublish
    /\ UNCHANGED <<scenesFile, files, lastStamp, calls, sleeps, runCount>>

\* the handler returns after writing its response: its frame is gone, and the
\* histories, which are kept per run, start anew
Return ==
    /\ UNCHANGED <<pureVars, procVars>>
    /\ h.pc = "done"
    /\ h' = IdleFrame
    /\ calls' = <<>>
    /\ sleeps' = <<>>
    /\ events' = <<>>
    /\ published' = [t \in AllTaskIds |-> <<>>]
    /\ UNCHANGED <<channels, chanBuf, chanState, hubPanic, subscribed, taken, overflowed,
                   recvCount, scenesFile, files, lastStamp, runCount>>

RunNext ==
    \/ HandlerStart
    \/ LoadConfig
    \/ RequestStart
    \/ Attempt
    \/ Backoff
    \/ AudioCall
    \/ Materialize
    \/ Save
    \/ Fail
    \/ CancelCtx
    \/ Return

\* --------------------------------------------- properties of the retry loop
Last(seq) == seq[Len(seq)]

Failed(call) == ~IsNil(call.err)

RECURSIVE SumDur(_)
SumDur(list) == IF Len(list) = 0 THEN 0 ELSE list[1].dur + SumDur(Tail(list))

\* the run has left the retry loop
LoopLeft == h.pc \in {"materialize", "save", "fail", "done"}

\* C1: the retry loop calls the provider at most 3 times, the calls are attempts
\* 1, 2, 3 in order, and a successful attempt is the last one: its result is what the
\* loop returns, and no attempt or sleep follows it.
C1_AtMostThreeFirstSuccessReturned ==
    h.kind = "image" =>
        /\ Len(calls) <= 3
        /\ \A i \in 1..Len(calls) :
              /\ calls[i].attempt = i
              /\ ~Failed(calls[i]) =>
                    /\ i = Len(calls)
                    /\ LoopLeft
                    /\ h.ref.Source = calls[i].result
                    /\ Len(sleeps) = i - 1

\* fail, fail, succeed: the run goes on with the third attempt's result
C1_Witness ==
    /\ h.kind = "image"
    /\ Len(calls) = 3
    /\ Failed(calls[1]) /\ Failed(calls[2]) /\ ~Failed(calls[3])
    /\ h.ref.Source = calls[3].result
    /\ h.pc = "done" /\ h.resp.status = 200

\* C2: no sleep precedes attempt 1; the sleep before attempt k (k = 2, 3) comes after
\* attempt k - 1 and lasts (k-1)*2 seconds; a run that succeeds at attempt 1, 2, 3 has
\* slept 0, 2, 6 seconds in total.
C2_LinearBackoff ==
    h.kind = "image" =>
        /\ Len(sleeps) <= Len(calls)
        /\ Len(calls) > 0 => Len(sleeps) >= Len(calls) - 1
        /\ \A i \in 1..Len(sleeps) :
              /\ sleeps[i].attempt = i + 1
              /\ sleeps[i].dur = ((i + 1) - 1) * 2
        /\ (Len(calls) > 0 /\ ~Failed(Last(calls))) =>
              SumDur(sleeps) = CASE Len(calls) = 1 -> 0
                                 [] Len(calls) = 2 -> 2
                                 [] Len(calls) = 3 -> 6
                                 [] OTHER -> -1

\* two failures, then a success after 2 s + 4 s
C2_Witness ==
    /\ h.kind = "image"
    /\ Len(calls) = 3 /\ ~Failed(calls[3])
    /\ Len(sleeps) = 2 /\ sleeps[1].dur = 2 /\ sleeps[2].dur = 4
    /\ h.pc = "materialize"

\* C3: when all 3 attempts fail the loop returns no result and an error that names
\* 3 attempts and wraps the error of attempt 3, whatever attempts 1 and 2 failed with.
C3_ExhaustedWrapsLastError ==
    (h.kind = "image" /\ Len(calls) = 3 /\ Failed(calls[3])) =>
        /\ h.pc \in {"fail", "done"}
        /\ h.ref = NoRef
        /\ h.err = <<"still failing after", "3", "attempts:">> \o calls[3].err
        /\ h.pc = "done" =>
              /\ h.resp.status = 500
              /\ h.resp.err = <<"generating failed:", "still failing after", "3", "attempts:">>
                              \o calls[3].err

\* three failures with three different errors
C3_Witness ==
    /\ h.kind = "image" /\ h.pc = "done"
    /\ Len(calls) = 3 /\ Failed(calls[1]) /\ Failed(calls[2]) /\ Failed(calls[3])
    /\ calls[1].err # calls[3].err /\ calls[2].err # calls[3].err
    /\ calls[1].err # calls[2].err

\* C4: a provider call k < 3 made under a cancelled context is the last one, and no
\* backoff sleep follows it.
C4_CancelStopsLoop ==
    h.kind = "image" =>
        \A k \in 1..Len(calls) :
            (k < 3 /\ calls[k].ctxDone) => (Len(calls) = k /\ Len(sleeps) <= k - 1)

\* the attempt under a cancelled context itself fails
C4_AttemptAborted ==
    \A k \in 1..Len(calls) : calls[k].ctxDone => Failed(calls[k])

\* C5: when the first answer is a normalization failure (HTTP 200, decodable, nothing
\* to extract) the run makes no second provider call.
C5_NormalizationNotRetried ==
    (h.kind = "image" /\ Len(calls) >= 1 /\ ~calls[1].ctxDone
        /\ IsNormalizationFailure(calls[1].resp)) => Len(calls) = 1

\* C6: a run whose effective provider configuration lacks a model, a base URL or an
\* API key makes no provider call and no sleep, and ends in an error response.
C6_ConfigErrorNoCall ==
    (h.pc \in {"request", "attempt", "backoff", "audioCall", "materialize", "save", "fail", "done"}
        /\ h.provCfg # NoProviderCfg /\ LacksProviderConfig(h.provCfg)) =>
        /\ calls = <<>>
        /\ sleeps = <<>>
        /\ h.pc \in {"request", "fail", "done"}
        /\ h.pc = "done" => (h.resp.status # 200 /\ ~IsNil(h.resp.err))

\* an image run without an API key got as far as its error response
C6_Witness ==
    /\ h.kind = "image" /\ h.pc = "done"
    /\ TrimSpace(h.provCfg.APIKey) = Empty
    /\ TrimSpace(h.provCfg.BaseURL) # Empty
    /\ Len(events) = 3
    /\ h.resp.status = 500

\* ------------------------------------------- properties of the handler's events
ErrorResponse == h.pc = "done" /\ h.resp.status # 200
SuccessResponse == h.pc = "done" /\ h.resp.status = 200

\* C7: a run that ends in a failure response has published, for the task id of its
\* request, a terminal event with a non-empty error text.
C7_EveryFailurePublishes ==
    (ErrorResponse /\ h.taskID # "") =>
        \E i \in 1..Len(events) :
            /\ events[i].TaskID = h.taskID
            /\ events[i].Completed
            /\ events[i].Error # NoError

\* C8: for a finished run that published at least one event, the response is an error
\* exactly if the last event published for the task has a non-empty error, and a
\* success exactly if that event is the completed event: progress 100, no error.
C8_ResponseAgreesWithLastEvent ==
    (h.pc = "done" /\ events # <<>>) =>
        LET last == Last(published[h.taskID])
        IN  /\ last = Last(events)
            /\ ErrorResponse <=> last.Error # NoError
            /\ SuccessResponse <=>
                  (last.Stage = <<"completed">> /\ last.Completed
                     /\ last.Progress = 100 /\ last.Error = NoError)

\* a run that failed after its "downloading" event
C8_Witness ==
    /\ ErrorResponse
    /\ Len(events) = 4
    /\ events[3].Progress = 70
    /\ Last(events).Error # NoError

\* ------------------------------------------------- the hub driven by its callers
RECURSIVE SumLen(_, _)
SumLen(f, S) ==
    IF S = {} THEN 0
    ELSE LET t == CHOOSE x \in S : TRUE IN Len(f[t]) + SumLen(f, S \ {t})

\* publish calls made so far
PubCount == SumLen(published, TaskIds)

\* the next channel make() hands out
NextChan == CHOOSE c \in ChanIds : chanState[c] = "unmade" /\ \A d \in ChanIds : d < c => chanState[d] # "unmade"

\* a progressHandler subscribes to a task id
HubSubscribe ==
    /\ UNCHANGED <<pureVars, procVars>>
    /\ \E c \in ChanIds : chanState[c] = "unmade"
    /\ \E t \in TaskIds : subscribe(t, NextChan)
    /\ UNCHANGED <<recvCount, runVars>>

\* a caller unsubscribes any channel it holds under any task id
HubUnsubscribe ==
    /\ UNCHANGED <<pureVars, procVars>>
    /\ \E t \in TaskIds, c \in ChanIds :
          /\ chanState[c] # "unmade"
          /\ unsubscribe(t, c)
    /\ UNCHANGED <<recvCount, runVars>>

\* a generation pipeline publishes its next update for a task id; Progress numbers
\* the updates of a task id so that they can be told apart
NextUpdate(t) == Update(t, <<"stage">>, "message", Len(published[t]) + 1, FALSE, NoError)

HubPublishTo(t) ==
    /\ UNCHANGED <<pureVars, procVars>>
    /\ publish(NextUpdate(t))
    /\ UNCHANGED <<recvCount, runVars>>

HubPublish ==
    /\ PubCount < MaxPublish
    /\ \E t \in TaskIds :
          /\ t # "t1" => Len(published[t]) < MaxOtherPublish
          /\ HubPublishTo(t)

\* a subscriber takes the next update out of its channel
HubReceive ==
    /\ UNCHANGED <<pureVars, procVars>>
    /\ recvCount < MaxRecv
    /\ \E c \in ChanIds : receive(c)
    /\ recvCount' = recvCount + 1
    /\ UNCHANGED runVars

vars == <<hubVars, runVars, pureVars, procVars>>

\* a progressHandler request that has not arrived
NoRequest == [pc |-> "idle", taskID |-> "", ch |-> 0, ctxDone |-> FALSE,
              sent |-> <<>>, status |-> 0, why |-> ""]

\* the goroutines that call into the hub: a progressHandler request per channel,
\* then the pipelines that publish
MaxPublishers == 2
LockHandlers == ChanIds
LockPublishers == (MaxChans + 1)..(MaxChans + MaxPublishers)
LockProcs == LockHandlers \cup LockPublishers

\* the handler runs in progress next to one another
MaxOverlap == 2
OverlapRuns == 1..MaxOverlap

\* a run that has not begun
NoRun == [pc |-> "idle", index |-> 0, taskID |-> "", scene |-> NoScene, scenes |-> <<>>,
          relPath |-> Empty, status |-> 0]

\* a goroutine outside the hub
Outside == [pc |-> "idle", taskID |-> "", ch |-> 0, list |-> <<>>, i |-> 0]

ProcInit ==
    /\ sse = [i \in ChanIds |-> NoRequest]
    /\ mu = [writer |-> 0, readers |-> {}]
    /\ gor = [p \in LockProcs |-> Outside]
    /\ runs = [r \in OverlapRuns |-> NoRun]

Init ==
    /\ HubInit /\ RunInit /\ parts = <<>> /\ extracted = NotExtracted /\ arg = NoArg /\ ret = NoRet
    /\ ProcInit

HubNext ==
    \/ HubSubscribe
    \/ HubUnsubscribe
    \/ HubPublish
    \/ HubReceive

SpecHub == Init /\ [][HubNext]_vars

Next == RunNext

Spec == Init /\ [][Next]_vars

\* extractImageURL applied to one text
Extract ==
    /\ extracted = NotExtracted
    /\ extracted' = extractImageURL(TextOf(parts))
    /\ UNCHANGED <<parts, arg, ret, hubVars, runVars, procVars>>

InitExtract ==
    /\ HubInit /\ RunInit /\ parts \in PieceLists /\ extracted = NotExtracted
    /\ arg = NoArg /\ ret = NoRet
    /\ ProcInit

SpecExtract == InitExtract /\ [][Extract]_vars

\* one call of a function, on arguments of its own
NotCalled(fn) == arg.fn = fn /\ ret = NoRet

CallParseDashscopeAudio ==
    /\ NotCalled("parseDashscopeAudio")
    /\ ret' = [fn |-> arg.fn, out |-> parseDashscopeAudio(arg.payload)]
    /\ UNCHANGED <<arg, parts, extracted, hubVars, runVars, procVars>>

CallExtractAudioFromMap ==
    /\ NotCalled("extractAudioFromMap")
    /\ ret' = [fn |-> arg.fn, out |-> extractAudioFromMap(arg.m)]
    /\ UNCHANGED <<arg, parts, extracted, hubVars, runVars, procVars>>

CallInferAudioExtensionFromData ==
    /\ NotCalled("inferAudioExtensionFromData")
    /\ ret' = [fn |-> arg.fn, out |-> inferAudioExtensionFromData(arg.data, arg.fallback)]
    /\ UNCHANGED <<arg, parts, extracted, hubVars, runVars, procVars>>

CallInferAudioExtensionFromURL ==
    /\ NotCalled("inferAudioExtensionFromURL")
    /\ ret' = [fn |-> arg.fn, out |-> inferAudioExtensionFromURL(arg.url, arg.fallback)]
    /\ UNCHANGED <<arg, parts, extracted, hubVars, runVars, procVars>>

CallSaveBase64ToFile ==
    /\ NotCalled("saveBase64ToFile")
    /\ ret' = [fn |-> arg.fn, out |-> saveBase64ToFile(arg.encoded, arg.before)]
    /\ UNCHANGED <<arg, parts, extracted, hubVars, runVars, procVars>>

CallRemoveGeneratedFile ==
    /\ NotCalled("removeGeneratedFile")
    /\ ret' = [fn |-> arg.fn,
               out |-> removeGeneratedFile(arg.fs, arg.relPath, arg.prefix, arg.dir,
                                           arg.removeOK)]
    /\ UNCHANGED <<arg, parts, extracted, hubVars, runVars, procVars>>

CallBuildSceneSpeechText ==
    /\ NotCalled("buildSceneSpeechText")
    /\ ret' = [fn |-> arg.fn, out |-> buildSceneSpeechText(arg.scene)]
    /\ UNCHANGED <<arg, parts, extracted, hubVars, runVars, procVars>>

CallDoImageEditRequest ==
    /\ NotCalled("doImageEditRequest")
    /\ ret' = [fn |-> arg.fn, out |-> doImageEditRequest(arg.resp)]
    /\ UNCHANGED <<arg, parts, extracted, hubVars, runVars, procVars>>

CallArgs ==
    {[fn |-> "parseDashscopeAudio", payload |-> x] : x \in Payloads}
        \cup {[fn |-> "extractAudioFromMap", m |-> x] : x \in AudioObjects}
        \cup {[fn |-> "inferAudioExtensionFromData", data |-> x, fallback |-> f] :
                 x \in InlinePayloads, f \in Fallbacks}
        \cup {[fn |-> "inferAudioExtensionFromURL", url |-> x, fallback |-> f] :
                 x \in AudioUrls, f \in Fallbacks}
        \cup {[fn |-> "saveBase64ToFile", encoded |-> x, before |-> f] :
                 x \in Encodeds, f \in FilesBefore}
        \cup {[fn |-> "removeGeneratedFile", fs |-> x, relPath |-> r, prefix |-> w.prefix,
                dir |-> w.dir, removeOK |-> ok] :
                 x \in FilesOnDisk, r \in RelPaths, w \in Removers, ok \in BOOLEAN}
        \cup {[fn |-> "buildSceneSpeechText", scene |-> x] : x \in SpokenScenes}
        \cup {[fn |-> "doImageEditRequest", resp |-> x] : x \in EditResponses}

InitCall ==
    /\ HubInit /\ RunInit /\ parts = <<>> /\ extracted = NotExtracted
    /\ arg \in CallArgs /\ ret = NoRet
    /\ ProcInit

CallNext ==
    \/ CallParseDashscopeAudio
    \/ CallExtractAudioFromMap
    \/ CallInferAudioExtensionFromData
    \/ CallInferAudioExtensionFromURL
    \/ CallSaveBase64ToFile
    \/ CallRemoveGeneratedFile
    \/ CallBuildSceneSpeechText
    \/ CallDoImageEditRequest

SpecCall == InitCall /\ [][CallNext]_vars

\* The goroutine of a handler run keeps being scheduled, and each of its steps
\* returns: the provider call and the download are bound to the context's deadline,
\* a sleep and a file operation end by themselves. Requests, cancellations and the
\* handler's return to its caller come as they may.
RunStep ==
    \/ LoadConfig
    \/ RequestStart
    \/ Attempt
    \/ Backoff
    \/ AudioCall
    \/ Materialize
    \/ Save
    \/ Fail

\* one handler run from its request to its response
RunOnce ==
    \/ HandlerStart
    \/ RunStep
    \/ CancelCtx

SpecFair == Init /\ [][RunOnce]_vars /\ WF_vars(RunStep)

\* ------------------------------------------------------------ hub properties
\* the step is a publish call for task id t
IsPublishStep(t) == published'[t] # published[t]

\* the update the publish step for t handed over
StepUpdate(t) == published'[t][Len(published'[t])]

Full(buf) == Len(buf) >= ChanCap

\* C9: publish never blocks. In every hub state a publish call for every task id
\* completes (every select of its loop does), also with subscribers whose buffer holds
\* ChanCap unread updates; a publish step leaves every full buffer of the task id as
\* it was, and every subscriber of the task id that did not get the update had a full
\* buffer.
C9_PublishNeverBlocks ==
    /\ [](\A t \in TaskIds : PublishResult(NextUpdate(t)).ready)
    /\ [][\A t \in TaskIds : IsPublishStep(t) =>
            \A i \in 1..Len(Lookup(channels, t)) :
                LET c == Lookup(channels, t)[i]
                IN  /\ Full(chanBuf[c]) => chanBuf'[c] = chanBuf[c]
                    /\ chanBuf'[c] = chanBuf[c] => Full(chanBuf[c])]_vars

\* a subscriber holds ChanCap unread updates and a later update of its task id was
\* published and dropped for it
C9_Witness ==
    \E t \in TaskIds : \E i \in 1..Len(Lookup(channels, t)) :
        LET c == Lookup(channels, t)[i]
            last == published[t][Len(published[t])]
        IN  /\ Len(published[t]) > ChanCap
            /\ Len(chanBuf[c]) = ChanCap
            /\ \A k \in 1..ChanCap : chanBuf[c][k] # last

\* C10: a stalled subscriber causes no loss for the others. In a publish step every
\* subscriber of the task id whose buffer has room gets the update appended,
\* wherever the subscribers with a full buffer stand in the list.
C10_NoLossForOthers ==
    [][\A t \in TaskIds : IsPublishStep(t) =>
          \A i \in 1..Len(Lookup(channels, t)) :
              LET c == Lookup(channels, t)[i]
              IN  ~Full(chanBuf[c]) => chanBuf'[c] = Append(chanBuf[c], StepUpdate(t))]_vars

\* two subscribers of one task id: the first in the list is full and missed the last
\* update, the second, behind it, received it
C10_Witness ==
    \E t \in TaskIds :
        LET list == Lookup(channels, t)
            last == published[t][Len(published[t])]
        IN  /\ Len(list) >= 2
            /\ Len(published[t]) > ChanCap
            /\ Len(chanBuf[list[1]]) = ChanCap
            /\ \A k \in 1..ChanCap : chanBuf[list[1]][k] # last
            /\ Len(chanBuf[list[2]]) > 0
            /\ chanBuf[list[2]][Len(chanBuf[list[2]])] = last

\* every update the publishes put into channel c so far, in order: what its reader
\* took out, then what waits in its buffer
Delivered(c) == taken[c] \o chanBuf[c]

\* C11: no backlog replay. The calls of the hub are serialized by its mutex. Every
\* update a publish put into a channel is one that was published for the channel's
\* task id after the subscribe call that made the channel, and none that was
\* published before it. A publish for a task id without subscribers changes nothing
\* in the hub: not its map, no buffer, no channel's state.
C11_NoBacklogReplay ==
    /\ [](\A c \in ChanIds : chanState[c] = "open" =>
            LET t == subscribed[c].task
                at == subscribed[c].at
            IN  \A k \in 1..Len(Delivered(c)) :
                    /\ \E j \in (at + 1)..Len(published[t]) :
                          Delivered(c)[k] = published[t][j]
                    /\ \A j \in 1..at : Delivered(c)[k] # published[t][j])
    /\ [][\A t \in TaskIds :
            (IsPublishStep(t) /\ Lookup(channels, t) = <<>>) =>
                UNCHANGED <<channels, chanBuf, chanState, hubPanic>>]_vars

\* a channel subscribed after two publishes of its task id has since been handed two
\* later updates, and its reader has taken one of them; another task id has updates
\* published with nobody subscribed
C11_Witness ==
    \E c \in ChanIds : \E u \in TaskIds :
        /\ chanState[c] = "open"
        /\ subscribed[c].at >= 2
        /\ Len(Delivered(c)) >= 2
        /\ Len(taken[c]) > 0
        /\ u # subscribed[c].task
        /\ u \notin DOMAIN channels
        /\ Len(published[u]) > 0

\* the larger of two numbers
Max(a, b) == IF a >= b THEN a ELSE b

\* the updates of seq that occur in series, in the order of seq
Among(seq, series) ==
    SelectSeq(seq, LAMBDA u : \E j \in 1..Len(series) : series[j] = u)

\* C12: two channels subscribed to one task id, neither of which a publish ever found
\* full, were handed identical sequences out of the series of updates published since
\* the later of the two subscribed: the whole series, in its order.
C12_SameSequence ==
    \A c, d \in ChanIds :
        (/\ c # d
         /\ chanState[c] = "open" /\ chanState[d] = "open"
         /\ subscribed[c].task = subscribed[d].task
         /\ ~overflowed[c] /\ ~overflowed[d]) =>
            LET t == subscribed[c].task
                series == SubSeq(published[t], Max(subscribed[c].at, subscribed[d].at) + 1,
                                 Len(published[t]))
            IN  /\ Among(Delivered(c), series) = Among(Delivered(d), series)
                /\ Among(Delivered(c), series) = series

\* two subscribers of one task id, the second of which came one publish after the
\* first, have both been handed the three updates published since; one reader has
\* taken an update out, the other has not
C12_Witness ==
    \E c, d \in ChanIds :
        /\ c # d
        /\ chanState[c] = "open" /\ chanState[d] = "open"
        /\ subscribed[c].task = subscribed[d].task
        /\ ~overflowed[c] /\ ~overflowed[d]
        /\ subscribed[d].at = subscribed[c].at + 1
        /\ Len(Delivered(d)) = 3
        /\ Len(Delivered(c)) = 4
        /\ Len(chanBuf[c]) = 3
        /\ Len(chanBuf[d]) = 3

\* ch stands in the subscriber list of taskID
Registered(taskID, ch) == IndexOf(Lookup(channels, taskID), ch) > 0

\* C13: unsubscribe closes a channel exactly once. In every hub state, a call for a
\* channel registered under the task id removes it from the list and closes it, and
\* the channel was open until then; a call for a channel that is not registered under
\* the task id (a second call with the same arguments, a closed channel, a channel of
\* another task id) closes nothing, does not panic and leaves the map as it is. A
\* closed channel is registered nowhere, and no close of a closed channel and no send
\* on one has happened.
C13_UnsubscribeClosesOnce ==
    /\ ~hubPanic
    /\ \A t \in TaskIds, c \in ChanIds :
          chanState[c] # "unmade" =>
              LET r == UnsubscribeResult(t, c)
              IN  /\ Registered(t, c) =>
                        /\ chanState[c] = "open"
                        /\ r.closed /\ ~r.panic
                        /\ IndexOf(Lookup(r.channels, t), c) = 0
                        /\ Len(Lookup(r.channels, t)) = Len(Lookup(channels, t)) - 1
                  /\ ~Registered(t, c) =>
                        /\ ~r.closed /\ ~r.panic
                        /\ r.channels = channels
                  /\ chanState[c] = "closed" => ~Registered(t, c)

\* one channel was unsubscribed and is closed while another channel is still
\* registered under the same task id: a second call for the closed channel has a
\* list to search
C13_Witness ==
    \E c, d \in ChanIds : \E t \in TaskIds :
        /\ chanState[c] = "closed"
        /\ chanState[d] = "open"
        /\ Registered(t, d)
        /\ Len(published[t]) > 0

\* C14: the hub's map holds no task id with an empty subscriber list. A task id is a
\* key of the map exactly while an open channel is subscribed to it, its list holds
\* exactly the open channels subscribed to it, each once, and the key is gone once
\* its last subscriber is unsubscribed.
C14_NoEmptyEntry ==
    /\ \A t \in DOMAIN channels : Len(channels[t]) > 0
    /\ \A t \in TaskIds :
          LET subs == {c \in ChanIds : chanState[c] = "open" /\ subscribed[c].task = t}
          IN  /\ t \in DOMAIN channels <=> subs # {}
              /\ {Lookup(channels, t)[i] : i \in 1..Len(Lookup(channels, t))} = subs
              /\ Len(Lookup(channels, t)) = Cardinality(subs)

\* every channel made was subscribed and unsubscribed again, and the map is empty
C14_Witness ==
    /\ \A c \in ChanIds : chanState[c] = "closed"
    /\ DOMAIN channels = {}
    /\ \E t \in TaskIds : Len(published[t]) > 0

\* ------------------------------------------------ properties of the artifacts
\* the route prefix and the directory of the run's kind of artifact
RunPrefix == IF h.kind = "image" THEN generatedImagesURLPrefix ELSE generatedAudioURLPrefix
RunDir == IF h.kind = "image" THEN generatedImagesDir ELSE generatedAudioDir

\* the file a relative URL under the route prefix stands for
FileBehind(relPath) == JoinPath(RunDir, SubSeq(relPath, 2, Len(relPath)))

\* the artifact path of the run's scene in the persisted collection
PersistedPath ==
    IF h.kind = "image" THEN scenesFile[h.index + 1].ImagePath
    ELSE scenesFile[h.index + 1].AudioPath

\* C15: after a successful regeneration for a scene that had a stored artifact whose
\* deletion did not fail, the persisted record references the new relative URL, the
\* file behind that URL is on disk, and the prior file is not (unless the new file
\* took its very name): of the two files exactly the new one remains.
C15_OneArtifactAfterRegeneration ==
    (SuccessResponse /\ h.prior # Empty /\ h.cleanup \in {"removed", "gone"}) =>
        /\ PersistedPath = h.relPath
        /\ HasPrefix(h.relPath, <<RunPrefix>>)
        /\ FileBehind(h.relPath) = h.absPath
        /\ h.absPath \in files
        /\ FileBehind(h.prior) # h.absPath => FileBehind(h.prior) \notin files
        /\ {f \in files : f \in {FileBehind(h.prior), h.absPath}} = {h.absPath}

\* an image was generated again a second later: the old file was removed, the new one
\* is on disk under another name
C15_Witness ==
    /\ SuccessResponse
    /\ h.kind = "image"
    /\ h.prior = PriorImage
    /\ h.cleanup = "removed"
    /\ h.relPath # h.prior
    /\ h.absPath \in files

\* the errors downloadToFile and saveBase64ToFile return
MaterializeErrors ==
    {<<"Get", "context canceled">>, <<"download failed:">>,
     <<"decoding the Base64 data failed:">>}

\* the run ended in a failure of the download or of the decoding
MaterializeFailed == ErrorResponse /\ h.pc = "done" /\ h.err \in MaterializeErrors

\* C16: the previous artifact is retired only on success of the materialization: a
\* run whose scene had its previous artifact file on disk and whose download or
\* decoding failed ends with that file still on disk.
C16_PriorKeptWhenMaterializeFails ==
    (MaterializeFailed /\ h.prior # Empty /\ h.cleanup \in {"removed", "error"}) =>
        FileBehind(h.prior) \in files

\* the removal of the scene's previous artifact removed nothing
CleanupFailed == h.cleanup \in {"gone", "error", "noprefix", "noname"}

\* C17: a failure to delete the stale artifact is never surfaced. In a run whose
\* removal of the previous artifact removed nothing (file already gone, removal error,
\* stored path without the route prefix) the generation goes on to the
\* materialization; an error it returns is an error of the materialization, and when
\* the materialization succeeds the new file is on disk and its relative URL, under
\* the route prefix, is what the generation returns.
C17_CleanupNeverSurfaced ==
    CleanupFailed =>
        /\ h.pc \in {"materialize", "save", "fail", "done"}
        /\ h.err = NoError \/ h.err \in MaterializeErrors
        /\ h.pc = "fail" => h.err \in MaterializeErrors
        /\ (h.pc \in {"save", "done"} /\ h.err = NoError) =>
              /\ h.absPath \in files
              /\ HasPrefix(h.relPath, <<RunPrefix>>)
              /\ FileBehind(h.relPath) = h.absPath
        /\ SuccessResponse => PersistedPath = h.relPath

\* os.Remove failed on the previous image, which is still on disk, and the run
\* succeeded all the same with the new image next to it
C17_Witness ==
    /\ SuccessResponse
    /\ h.kind = "image"
    /\ h.cleanup = "error"
    /\ FileBehind(h.prior) \in files
    /\ h.absPath \in files
    /\ h.absPath # FileBehind(h.prior)

\* --------------------------------------------------- termination of a run
\* a network call of the run was made after the context's deadline had passed
CallAfterDeadline ==
    \/ \E k \in 1..Len(calls) : calls[k].ctxDone
    \/ \E k \in 1..Len(h.mats) : h.mats[k].network /\ h.mats[k].ctxDone

\* C18: every generation run terminates. A run that started reaches its response,
\* Completed or Failed; it makes at most 3 provider calls and at most one
\* materialization on the way; a provider call made after the deadline passed is
\* aborted with an error, a download made after it fails, and a run with such a call
\* ends in Failed, never in Completed.
C18_RunTerminates ==
    /\ [](/\ Len(calls) <= 3
          /\ Len(h.mats) <= 1
          /\ \A k \in 1..Len(calls) : calls[k].ctxDone => Failed(calls[k])
          /\ (\E k \in 1..Len(h.mats) : h.mats[k].network /\ h.mats[k].ctxDone) =>
                h.err = <<"Get", "context canceled">>
          /\ (h.pc = "done" /\ CallAfterDeadline) => ErrorResponse)
    /\ (h.pc \notin {"idle", "done"}) ~> (h.pc = "done")

\* the deadline passed during the third provider call after two failures, and the
\* run answered with an error
C18_Witness ==
    /\ h.pc = "done"
    /\ h.kind = "image"
    /\ Len(calls) = 3
    /\ ~calls[2].ctxDone
    /\ calls[3].ctxDone
    /\ ErrorResponse

\* ------------------------------------------------ properties of extractImageURL
\* the positions of the pieces that hold a URL, and of those that hold an image URL
UrlAt == {i \in 1..Len(parts) : parts[i].url # <<>>}
ImageAt == {i \in UrlAt : parts[i].image}

Least(S) == CHOOSE i \in S : \A j \in S : i <= j
Greatest(S) == CHOOSE i \in S : \A j \in S : i >= j

\* C19: for a text that holds both a URL without an image suffix and a URL with one,
\* extractImageURL returns, without an error, the first URL with an image suffix in
\* order of appearance, cleaned, wherever the other URLs stand.
C19_FirstImageWins ==
    (extracted # NotExtracted /\ ImageAt # {} /\ UrlAt \ ImageAt # {}) =>
        /\ extracted.err = NoError
        /\ extracted.url = parts[Least(ImageAt)].url

\* a URL without image suffix stands before and after two image URLs, and the first
\* of the two was returned
C19_Witness ==
    /\ extracted # NotExtracted
    /\ Len(parts) = 3
    /\ Cardinality(ImageAt) = 2
    /\ Least(ImageAt) = 2
    /\ ~parts[1].image /\ parts[1].url # <<>>
    /\ parts[2].url # parts[3].url
    /\ extracted.url = parts[2].url

\* C20: extractImageURL returns an error exactly when the text holds no URL; when it
\* holds URLs but none with an image suffix it returns the last of them, cleaned of
\* the brackets, quotes and punctuation around it, and no earlier one.
C20_ErrorIffNoMatchElseLast ==
    extracted # NotExtracted =>
        /\ extracted.err # NoError <=> UrlAt = {}
        /\ extracted.err # NoError => extracted.url = <<>>
        /\ (UrlAt # {} /\ ImageAt = {}) =>
              /\ extracted.url = parts[Greatest(UrlAt)].url
              /\ \A i \in UrlAt :
                    parts[i].url # parts[Greatest(UrlAt)].url => extracted.url # parts[i].url

\* three different URLs without image suffix, the last one in brackets and followed
\* by a comma: the last one was returned, cleaned
C20_Witness ==
    /\ extracted # NotExtracted
    /\ Len(parts) = 3
    /\ UrlAt = {1, 2, 3} /\ ImageAt = {}
    /\ parts[1].url # parts[3].url /\ parts[2].url # parts[3].url
    /\ parts[3].text # parts[3].url
    /\ extracted.url = parts[3].url

\* ------------------------------------------- properties of the audio normalizer
\* the elements of a decoded list that are objects, in order
RECURSIVE ObjectsIn(_)
ObjectsIn(items) ==
    IF Len(items) = 0 THEN <<>>
    ELSE IF items[1].t = "map" THEN <<items[1].m>> \o ObjectsIn(Tail(items))
    ELSE ObjectsIn(Tail(items))

\* the objects under key of the object m: the object itself, the objects of a list
ObjectAt(m, key) == IF HasObj(m, key) THEN <<m[key].m>> ELSE <<>>
ListAt(m, key) == IF HasList(m, key) THEN ObjectsIn(m[key].l) ELSE <<>>

\* the candidate objects of a decoded body in the order of the search
Candidates(payload) ==
    IF payload.t # "map" THEN <<>>
    ELSE LET output == ObjectAt(payload.m, "output")
         IN  (IF Len(output) = 0 THEN <<>>
              ELSE ObjectAt(output[1], "audio") \o output \o ListAt(output[1], "results"))
             \o ObjectAt(payload.m, "data") \o ListAt(payload.m, "results")

\* the positions of the candidates that yield a payload
Yielding(cands) == {i \in 1..Len(cands) : extractAudioFromMap(cands[i]).ok}

ParsedAudio == ret # NoRet /\ arg.fn = "parseDashscopeAudio"

\* C21: parseDashscopeAudio returns what the first candidate object that yields a
\* payload yields, the candidates being output.audio, output, the elements of
\* output.results, data and the elements of results, in this order; it returns an
\* error exactly when no candidate yields a payload (so for a nil or empty body).
C21_FirstCandidateWins ==
    ParsedAudio =>
        LET cands == Candidates(arg.payload)
            hits == Yielding(cands)
        IN  IF hits = {}
            THEN ret.out.err # NoError
            ELSE /\ ret.out.err = NoError
                 /\ ret.out.res = extractAudioFromMap(cands[Least(hits)]).res

\* a body whose first yielding candidate is neither the first nor the last candidate,
\* with a later candidate that yields another payload, was parsed
C21_Witness ==
    /\ ParsedAudio
    /\ LET cands == Candidates(arg.payload)
           hits == Yielding(cands)
       IN  /\ hits # {}
           /\ Least(hits) > 1
           /\ \E j \in hits :
                 /\ j > Least(hits)
                 /\ extractAudioFromMap(cands[j]).res # ret.out.res
           /\ ret.out.res = extractAudioFromMap(cands[Least(hits)]).res

\* the keys of the object m, among keys, that hold a string with more than blanks
NonBlankKeys(m, keys) ==
    {k \in keys \cap DOMAIN m : m[k].t = "str" /\ TrimSpace(m[k].s) # Empty}

InlineKeys == {"audio", "audio_data"}
UrlKeys == {"audio_url", "url"}

StartsWithScheme(str) == HasPrefix(ToLower(str), Http) \/ HasPrefix(ToLower(str), Https)

ExtractedAudio == ret # NoRet /\ arg.fn = "extractAudioFromMap"

\* C22: for an object with a non-blank string under audio or audio_data,
\* extractAudioFromMap yields one of these strings (trimmed), as a RemoteURL exactly
\* when it starts with http:// or https:// in any case; for an object without one but
\* with a non-blank string under audio_url or url, it yields one of those, as a
\* RemoteURL; so an object with a non-blank string under any of the four keys yields
\* a payload.
C22_InlineKeysPreferred ==
    ExtractedAudio =>
        LET inline == NonBlankKeys(arg.m, InlineKeys)
            remote == NonBlankKeys(arg.m, UrlKeys)
        IN  /\ inline # {} =>
                  /\ ret.out.ok
                  /\ \E k \in inline : ret.out.res.Source = TrimSpace(arg.m[k].s)
                  /\ ret.out.res.IsURL = StartsWithScheme(ret.out.res.Source)
            /\ (inline = {} /\ remote # {}) =>
                  /\ ret.out.ok
                  /\ \E k \in remote : ret.out.res.Source = TrimSpace(arg.m[k].s)
                  /\ ret.out.res.IsURL

\* the mimes m for which the payload, without the blanks around it, starts with
\* data:audio/m;base64, where m is not empty and has no semicolon
MimesOf(payload) ==
    LET text == ToLower(TrimSpace(payload))
        from == Len(DataAudio) + 1
    IN  {SubSeq(text, from, to) : to \in
            {to \in from..Len(text) :
                /\ HasPrefix(text, DataAudio)
                /\ \A i \in from..to : text[i] # ";"
                /\ HasPrefixAt(text, to + 1, Base64Mark)}}

\* a format field as an extension: without its leading dot
AsExtension(format) == TrimPrefix(format, Dot)

\* the extension of an inline payload that comes with the format field format
InlineExtension(payload, format) ==
    IF MimesOf(payload) # {} THEN CHOOSE m \in MimesOf(payload) : TRUE
    ELSE IF AsExtension(format) # Empty THEN AsExtension(format)
    ELSE Mp3

\* the format field of an object, empty if it has none
FormatOf(m) == IF "format" \in DOMAIN m /\ m["format"].t = "str" THEN m["format"].s ELSE Empty

InferredFromData == ret # NoRet /\ arg.fn = "inferAudioExtensionFromData"

KnownSuffixes == <<Mp3, Wav, Ogg, M4a, Aac>>

\* the positions in the list of the suffixes that occur in the URL, in any case
SuffixesIn(url) ==
    {i \in 1..Len(KnownSuffixes) : Contains(ToLower(url), Dot \o KnownSuffixes[i])}

InferredFromURL == ret # NoRet /\ arg.fn = "inferAudioExtensionFromURL"

\* C24: the extension of an audio URL is the first suffix of the list .mp3, .wav,
\* .ogg, .m4a, .aac that occurs in the URL, otherwise the fallback of the caller (as
\* an extension) when this is not empty, otherwise mp3; the extension never starts
\* with a dot; http://x/y/clip.ogg without a format yields ogg.
C24_UrlExtension ==
    InferredFromURL =>
        /\ ret.out = IF SuffixesIn(arg.url) # {}
                     THEN KnownSuffixes[Least(SuffixesIn(arg.url))]
                     ELSE IF arg.fallback # Empty THEN AsExtension(arg.fallback)
                     ELSE Mp3
        /\ ~HasPrefix(ret.out, Dot)
        /\ (arg.url = ClipOgg /\ arg.fallback = Empty) => ret.out = Ogg

\* --------------------------------------------- properties of the materializer
\* the payload without a leading data:...;base64, prefix
WithoutDataPrefix(payload) ==
    LET marks == {i \in 1..Len(payload) : HasPrefixAt(payload, i, Base64Mark)}
    IN  IF HasPrefix(payload, DataScheme) /\ marks # {}
        THEN SubSeq(payload, Least(marks) + Len(Base64Mark), Len(payload))
        ELSE payload

\* the payload without its whitespace and newlines
WithoutSpace(payload) == SelectSeq(payload, LAMBDA c : ~IsSpace(c))

\* the base64 text of a payload
Base64Of(payload) == WithoutSpace(WithoutDataPrefix(TrimSpace(payload)))

SavedBase64 == ret # NoRet /\ arg.fn = "saveBase64ToFile"

\* C25: saveBase64ToFile takes the data:...;base64, prefix and the whitespace and
\* newlines out of the payload; when what is left is base64 it returns no error and
\* the target holds the decoded bytes; when it is malformed it returns an error and
\* the target is as it was before, missing or with its old bytes.
C25_DecodesStrippedPayload ==
    SavedBase64 =>
        LET decoded == DecodeString(Base64Of(arg.encoded))
        IN  IF decoded.ok
            THEN IsNil(ret.out.err) /\ ret.out.file = File(decoded.data)
            ELSE ~IsNil(ret.out.err) /\ ret.out.file = arg.before

\* ------------------------------------------- properties of removeGeneratedFile
CalledRemove == ret # NoRet /\ arg.fn = "removeGeneratedFile"

\* what follows the prefix in a path that starts with it
NameIn(relPath) == SubSeq(relPath, 2, Len(relPath))

\* C26: removeGeneratedFile leaves the files as they are when relPath does not start
\* with the route prefix or has nothing after it; when relPath is the prefix and the
\* name of a file that exists in dir, and the file system lets the file be removed,
\* the files afterwards are the files before without this one.
C26_RemovesNamedFileOnly ==
    CalledRemove =>
        /\ (~HasPrefix(arg.relPath, <<arg.prefix>>) \/ arg.relPath = <<arg.prefix>>) =>
                ret.out = arg.fs
        /\ (/\ HasPrefix(arg.relPath, <<arg.prefix>>)
            /\ NameIn(arg.relPath) # Empty
            /\ JoinPath(arg.dir, NameIn(arg.relPath)) \in arg.fs
            /\ arg.removeOK) =>
                /\ JoinPath(arg.dir, NameIn(arg.relPath)) \notin ret.out
                /\ \A f \in arg.fs : f # JoinPath(arg.dir, NameIn(arg.relPath)) => f \in ret.out
                /\ ret.out \subseteq arg.fs

\* a file was removed from a disk that holds a file of the same name in the other
\* directory and another file in the same directory, which are still there
C26_Witness ==
    /\ CalledRemove
    /\ arg.relPath = <<generatedImagesURLPrefix>> \o OldName
    /\ arg.prefix = generatedImagesURLPrefix
    /\ Cardinality(arg.fs) = 3
    /\ ret.out = arg.fs \ {JoinPath(generatedImagesDir, OldName)}
    /\ Cardinality(ret.out) = 2

\* ------------------------------------------- properties of buildSceneSpeechText
\* the four texts of a scene in their priority
SpeechTexts(scene) ==
    <<TrimSpace(scene.Narration), JoinWithSpace(scene.Dialogues),
      TrimSpace(scene.Description), TrimSpace(scene.Title)>>

BuiltSpeechText == ret # NoRet /\ arg.fn = "buildSceneSpeechText"

\* C27: buildSceneSpeechText returns the first text that is not empty among the
\* trimmed narration, the dialogues joined by one space, the trimmed description and
\* the trimmed title; it returns the empty string only when all four are empty.
C27_FirstNonEmptyText ==
    BuiltSpeechText =>
        LET texts == SpeechTexts(arg.scene)
            nonEmpty == {i \in 1..Len(texts) : texts[i] # Empty}
        IN  ret.out = IF nonEmpty = {} THEN Empty ELSE texts[Least(nonEmpty)]

\* ------------------------------------------- properties of doImageEditRequest
\* the image references at output.choices[0].message.content[i].image of a body
OutputImages(payload) ==
    IF payload.t = "map" /\ HasObj(payload.m, "output")
    THEN LET output == payload.m["output"].m
             items == IF /\ HasList(output, "choices")
                         /\ Len(output["choices"].l) > 0
                         /\ output["choices"].l[1].t = "map"
                         /\ HasObj(output["choices"].l[1].m, "message")
                         /\ HasList(output["choices"].l[1].m["message"].m, "content")
                      THEN ObjectsIn(output["choices"].l[1].m["message"].m["content"].l)
                      ELSE <<>>
         IN  {items[i]["image"].s : i \in
                 {i \in 1..Len(items) :
                     /\ "image" \in DOMAIN items[i]
                     /\ items[i]["image"].t = "str"
                     /\ items[i]["image"].s # Empty}}
    ELSE {}

\* the body is an object with an output object and nothing else, and this holds no
\* image reference: none under choices, no string under results[0].url
OutputWithoutImage(payload) ==
    /\ payload.t = "map"
    /\ DOMAIN payload.m = {"output"}
    /\ HasObj(payload.m, "output")
    /\ OutputImages(payload) = {}
    /\ ~ResultUrl(payload.m).ok

Answered200 == ~arg.resp.neterr /\ arg.resp.status = 200 /\ arg.resp.decodable

EditRequested == ret # NoRet /\ arg.fn = "doImageEditRequest"

\* C28: for an HTTP 200 answer with an image reference at
\* output.choices[0].message.content[i].image, doImageEditRequest returns a non-empty
\* image URL and no error; for an HTTP 200 answer whose output object holds no image
\* reference it returns an error.
C28_EditImageFromOutputChoices ==
    (EditRequested /\ Answered200) =>
        /\ OutputImages(arg.resp.payload) # {} =>
                IsNil(ret.out.err) /\ ret.out.url # Empty
        /\ OutputWithoutImage(arg.resp.payload) => ~IsNil(ret.out.err)

\* ------------------------------------------- the state machine of a run's events
\* the place of an event's stage in the state machine: Preparing 1, Invoking 2,
\* Materializing 3, Completed or Failed 4
StageRank(update) ==
    IF update.Stage = <<"preparing">> THEN 1
    ELSE IF update.Stage \in {<<"generating", "image">>, <<"generating", "audio">>} THEN 2
    ELSE IF update.Stage \in {<<"downloading", "image">>, <<"downloading", "audio">>} THEN 3
    ELSE IF update.Stage \in {<<"completed">>, <<"error">>} THEN 4
    ELSE 0

\* the progress values of a sequence of events
ProgressOf(list) == [i \in 1..Len(list) |-> list[i].Progress]

\* C29: the events a run has published, which are the events published for its task
\* id, start with the preparing event; every later event is of a later stage than
\* the events before it (so no stage has two events, none comes after the terminal
\* event, and no later stage precedes an earlier one); an event other than the error
\* event follows the event of the stage just before its own, and the stage of the
\* middle events is that of the run's kind; a run that has ended has exactly one
\* terminal event, its last, and the progress of a successful run is 10, 30, 70, 100.
C29_EventsFollowStateMachine ==
    (h.pc # "idle" /\ events # <<>>) =>
        /\ published[h.taskID] = events
        /\ \A i \in 1..Len(events) :
              /\ events[i].TaskID = h.taskID
              /\ StageRank(events[i]) \in 1..4
              /\ StageRank(events[i]) \in {2, 3} => events[i].Stage[2] = h.kind
              /\ events[i].Completed <=> StageRank(events[i]) = 4
        /\ StageRank(events[1]) = 1
        /\ \A i, j \in 1..Len(events) : i < j => StageRank(events[i]) < StageRank(events[j])
        /\ \A i \in 2..Len(events) :
              events[i].Stage # <<"error">> => StageRank(events[i]) = StageRank(events[i - 1]) + 1
        /\ h.pc = "done" =>
              Cardinality({i \in 1..Len(events) : StageRank(events[i]) = 4}) = 1
        /\ (h.pc = "done" /\ Last(events).Stage = <<"completed">>) =>
              ProgressOf(events) = <<10, 30, 70, 100>>

\* a run has ended after the events of all four stages
C29_Witness ==
    /\ h.pc = "done"
    /\ Len(events) = 4
    /\ ProgressOf(events) = <<10, 30, 70, 100>>
    /\ Last(events).Stage = <<"completed">>
    /\ published[h.taskID] = events

\* C30: a run whose provider configuration lacks the model, the base URL or the API
\* key has published no event of the invoking stage (generating_image,
\* generating_audio): it goes from the preparing event to the error event.
C30_NoInvokingEventWithoutConfig ==
    (h.pc # "idle" /\ h.provCfg # NoProviderCfg /\ LacksProviderConfig(h.provCfg)) =>
        /\ \A i \in 1..Len(events) : StageRank(events[i]) # 2
        /\ h.pc = "done" =>
              /\ Len(events) = 2
              /\ events[1].Stage = <<"preparing">>
              /\ events[2].Stage = <<"error">>

\* ------------------------------------------- a failed materialization is final
\* C31: a run materializes at most once. A run whose download or decoding failed has
\* made this one materialization and answers with that error; from the
\* materialization on, the run makes no provider call and no other materialization.
C31_MaterializedOnce ==
    /\ [](/\ Len(h.mats) <= 1
          /\ (h.pc \in {"fail", "done"} /\ h.err \in MaterializeErrors) => Len(h.mats) = 1
          /\ MaterializeFailed => h.resp.err = <<"generating failed:">> \o h.err)
    /\ [][(h.pc \notin {"idle", "done"} /\ h.mats # <<>>) =>
              (calls' = calls /\ h'.mats = h.mats)]_vars

\* a run whose provider call succeeded ended in the failure of its download
C31_Witness ==
    /\ MaterializeFailed
    /\ h.err = <<"download failed:">>
    /\ Len(h.mats) = 1
    /\ Len(calls) >= 1
    /\ ~Failed(Last(calls))

\* ------------------------------------------------- the progress stream handler
\* func progressHandler(w http.ResponseWriter, r *http.Request): one request per
\* channel the hub can make. The hub's lock makes subscribe, unsubscribe and publish
\* atomic; the handler's steps are the statements between them.
MaxEvents == 2

\* update.Completed || update.Error != ""
Terminal(update) == update.Completed \/ update.Error # NoError

\* the updates a pipeline publishes
StreamUpdate(t, kind) ==
    Update(t, <<"stage">>, "message", Len(published[t]) + 1,
           kind = "completed", IF kind = "error" THEN <<"failed">> ELSE NoError)

\* from the entry to the end of tracker.subscribe(taskID): the path without a
\* task id is answered 400, a writer that cannot flush 500. The requests are
\* numbered in the order they arrive.
SseStart(i) ==
    /\ sse[i].pc = "idle"
    /\ \A j \in ChanIds : j < i => sse[j].pc # "idle"
    /\ \E taskID \in TaskIds \cup {""}, flusher \in BOOLEAN :
          IF taskID = ""
          THEN /\ sse' = [sse EXCEPT ![i] = [@ EXCEPT !.pc = "returned", !.status = 400,
                                                       !.why = "no task id"]]
               /\ UNCHANGED <<channels, chanBuf, chanState, hubPanic, published, subscribed,
                              taken, overflowed>>
          ELSE IF ~flusher
          THEN /\ sse' = [sse EXCEPT ![i] = [@ EXCEPT !.pc = "returned", !.status = 500,
                                                       !.why = "no flusher"]]
               /\ UNCHANGED <<channels, chanBuf, chanState, hubPanic, published, subscribed,
                              taken, overflowed>>
          ELSE /\ \E c \in ChanIds : chanState[c] = "unmade"
               /\ subscribe(taskID, NextChan)
               /\ sse' = [sse EXCEPT ![i] = [@ EXCEPT !.pc = "loop", !.status = 200,
                                                       !.taskID = taskID, !.ch = NextChan]]
    /\ UNCHANGED <<recvCount, runVars, pureVars, lockVars, overlapVars>>

\* the client goes away: r.Context() is done
SseCancel(i) ==
    /\ sse[i].pc = "loop"
    /\ ~sse[i].ctxDone
    /\ sse' = [sse EXCEPT ![i].ctxDone = TRUE]
    /\ UNCHANGED <<hubVars, runVars, pureVars, lockVars, overlapVars>>

\* one round of the select: a ready case is taken, any one when several are.
\* json.Marshal does not fail on a ProgressUpdate, whose fields are strings, an int
\* and a bool.
\* A variant that reads on after a terminal update.
SseSelectKeepReading(i) ==
    /\ sse[i].pc = "loop"
    /\ \/ /\ sse[i].ctxDone
          /\ sse' = [sse EXCEPT ![i] = [@ EXCEPT !.pc = "exit", !.why = "cancelled"]]
          /\ UNCHANGED hubVars
       \/ /\ receive(sse[i].ch)
          /\ sse' = [sse EXCEPT ![i] = [@ EXCEPT !.sent = Append(@, Head(chanBuf[sse[i].ch]))]]
          /\ UNCHANGED recvCount
       \/ /\ chanState[sse[i].ch] = "closed"
          /\ sse' = [sse EXCEPT ![i] = [@ EXCEPT !.pc = "exit", !.why = "closed"]]
          /\ UNCHANGED hubVars
    /\ UNCHANGED <<runVars, pureVars, lockVars, overlapVars>>

SseSelect(i) ==
    /\ sse[i].pc = "loop"
    /\ \/ /\ sse[i].ctxDone
          /\ sse' = [sse EXCEPT ![i] = [@ EXCEPT !.pc = "exit", !.why = "cancelled"]]
          /\ UNCHANGED hubVars
       \/ /\ receive(sse[i].ch)
          /\ LET update == Head(chanBuf[sse[i].ch])
             IN  sse' = [sse EXCEPT ![i] =
                            IF Terminal(update)
                            THEN [@ EXCEPT !.sent = Append(@, update), !.pc = "exit",
                                           !.why = "terminal"]
                            ELSE [@ EXCEPT !.sent = Append(@, update)]]
          /\ UNCHANGED recvCount
       \/ /\ chanState[sse[i].ch] = "closed"
          /\ sse' = [sse EXCEPT ![i] = [@ EXCEPT !.pc = "exit", !.why = "closed"]]
          /\ UNCHANGED hubVars
    /\ UNCHANGED <<runVars, pureVars, lockVars, overlapVars>>

\* defer tracker.unsubscribe(taskID, ch), then the return
SseReturn(i) ==
    /\ sse[i].pc = "exit"
    /\ unsubscribe(sse[i].taskID, sse[i].ch)
    /\ sse' = [sse EXCEPT ![i].pc = "returned"]
    /\ UNCHANGED <<recvCount, runVars, pureVars, lockVars, overlapVars>>

\* a pipeline publishes an update, a terminal one or not; the pipelines publish for
\* one task id, which a request may watch or not
SsePublish ==
    /\ PubCount < MaxEvents
    /\ \E kind \in {"progress", "completed", "error"} :
          publish(StreamUpdate("t1", kind))
    /\ UNCHANGED <<recvCount, runVars, pureVars, procVars>>

SseStarts == \E i \in ChanIds : SseStart(i)
SseCancels == \E i \in ChanIds : SseCancel(i)
SseSelects == \E i \in ChanIds : SseSelect(i)
SseReturns == \E i \in ChanIds : SseReturn(i)

SseNext ==
    \/ SseStarts
    \/ SseCancels
    \/ SseSelects
    \/ SseReturns
    \/ SsePublish

SpecSse == Init /\ [][SseNext]_vars

\* ------------------------------------------- the stream ends and leaves no entry
\* the task ids under which ch is registered in the hub
RegisteredUnder(ch) == {t \in DOMAIN channels : IndexOf(channels[t], ch) > 0}

\* C32: a progressHandler request forwards nothing after the first update that is
\* completed or carries an error, and leaves its loop with it; it leaves the loop
\* only for that, for a cancelled context or for a closed channel; and once it has
\* returned, its channel is closed and registered under no task id, so that every
\* registered channel belongs to a request still in progress.
C32_StreamEndsAndUnsubscribes ==
    /\ ~hubPanic
    /\ \A i \in ChanIds :
          /\ \A k \in 1..Len(sse[i].sent) :
                Terminal(sse[i].sent[k]) =>
                    k = Len(sse[i].sent) /\ sse[i].pc \in {"exit", "returned"}
                                         /\ sse[i].why = "terminal"
          /\ (sse[i].pc \in {"exit", "returned"} /\ sse[i].ch # 0) =>
                \/ sse[i].why = "terminal" /\ sse[i].sent # <<>> /\ Terminal(Last(sse[i].sent))
                \/ sse[i].why = "cancelled" /\ sse[i].ctxDone
                \/ sse[i].why = "closed"
          /\ (sse[i].pc = "returned" /\ sse[i].ch # 0) =>
                chanState[sse[i].ch] = "closed" /\ RegisteredUnder(sse[i].ch) = {}
    /\ \A c \in ChanIds :
          RegisteredUnder(c) # {} =>
              \E i \in ChanIds : sse[i].ch = c /\ sse[i].pc \in {"loop", "exit"}

C32_Witness ==
    \E i, j \in ChanIds :
        /\ sse[i].pc = "returned" /\ sse[i].why = "terminal" /\ Len(sse[i].sent) >= 2
        /\ chanState[sse[i].ch] = "closed"
        /\ sse[j].pc = "returned" /\ sse[j].why = "cancelled" /\ sse[j].ch # 0

\* ------------------------------------------- the chat shape before the results shape
\* the reference the chat-completion shape of a body yields: the image link found in
\* choices[0].message.content
ChatReference(payload) ==
    IF payload.t = "map" /\ ChoiceContent(payload.m).ok
    THEN LET found == extractImageURL(ChoiceContent(payload.m).s)
         IN  [s |-> found.url, ok |-> IsNil(found.err)]
    ELSE [s |-> Empty, ok |-> FALSE]

\* the reference the results shape yields: output.results[0].url
ResultsReference(payload) ==
    IF payload.t = "map" THEN ResultUrl(payload.m) ELSE [s |-> Empty, ok |-> FALSE]

\* C33: for a decodable answer with status 200, doImageEditRequest returns the
\* reference found in choices[0].message.content whenever there is one, whether or not
\* output.results[0].url is present; it returns output.results[0].url only when the
\* chat shape is absent or yields no reference; and it returns an error only when
\* neither shape yields one.
C33_ChatShapeFirst ==
    (EditRequested /\ Answered200) =>
        LET chat == ChatReference(arg.resp.payload)
            results == ResultsReference(arg.resp.payload)
        IN  /\ chat.ok => IsNil(ret.out.err) /\ ret.out.url = chat.s
            /\ (IsNil(ret.out.err) /\ results.ok /\ ret.out.url = results.s
                    /\ ret.out.url # chat.s) => ~chat.ok
            /\ ~IsNil(ret.out.err) => ~chat.ok /\ ~results.ok

C33_Witness ==
    /\ EditRequested /\ Answered200
    /\ ChatReference(arg.resp.payload).ok
    /\ ResultsReference(arg.resp.payload).ok
    /\ ResultsReference(arg.resp.payload).s # ChatReference(arg.resp.payload).s
    /\ ret.out.url = ChatReference(arg.resp.payload).s

\* ------------------------------------------- removal stays inside the directory
\* the directory a file lies in
DirOf(file) == Head(file)

\* C34: whatever relPath removeGeneratedFile is called with, every file it removes
\* lies in dir.
C34_RemovesInsideDirOnly ==
    CalledRemove => \A f \in arg.fs \ ret.out : DirOf(f) = arg.dir

\* ------------------------------------------------------- the hub under its lock
\* The calls of subscribe, unsubscribe and publish, statement by statement, for
\* goroutines that run next to one another: a request calls subscribe and later
\* unsubscribe for the channel it got, a pipeline calls publish.
Step(p, pc) == [gor EXCEPT ![p].pc = pc]

\* a request enters subscribe; the requests are numbered in the order they arrive
LkSubscribeCall(p) ==
    /\ p \in LockHandlers
    /\ gor[p].pc = "idle"
    /\ \A q \in LockHandlers : q < p => gor[q].pc # "idle"
    /\ \E t \in TaskIds : gor' = [gor EXCEPT ![p] = [@ EXCEPT !.pc = "sub.lock", !.taskID = t]]
    /\ UNCHANGED <<mu, hubVars, runVars, pureVars, sseVars, overlapVars>>

\* pt.mu.Lock(): granted when nobody holds the lock
LkLock(p) ==
    /\ gor[p].pc \in {"sub.lock", "unsub.lock"}
    /\ mu.writer = 0 /\ mu.readers = {}
    /\ mu' = [mu EXCEPT !.writer = p]
    /\ gor' = Step(p, IF gor[p].pc = "sub.lock" THEN "sub.body" ELSE "unsub.find")
    /\ UNCHANGED <<hubVars, runVars, pureVars, sseVars, overlapVars>>

\* ch := make(...); pt.channels[taskID] = append(...); return ch, with the deferred
\* Unlock
LkSubscribeBody(p) ==
    /\ gor[p].pc = "sub.body"
    /\ \E c \in ChanIds : chanState[c] = "unmade"
    /\ subscribe(gor[p].taskID, NextChan)
    /\ gor' = [gor EXCEPT ![p] = [@ EXCEPT !.pc = "holding", !.ch = NextChan]]
    /\ mu' = [mu EXCEPT !.writer = 0]
    /\ UNCHANGED <<recvCount, runVars, pureVars, sseVars, overlapVars>>

\* the request returns: the deferred tracker.unsubscribe(taskID, ch) is called
LkUnsubscribeCall(p) ==
    /\ gor[p].pc = "holding"
    /\ gor' = Step(p, "unsub.lock")
    /\ UNCHANGED <<mu, hubVars, runVars, pureVars, sseVars, overlapVars>>

\* the loop of unsubscribe up to the removal of ch from the list
LkRemove(p) ==
    /\ gor[p].pc = "unsub.find"
    /\ channels' = AfterRemoveKeepKey(channels, gor[p].taskID, gor[p].ch)
    /\ gor' = Step(p, IF IndexOf(Lookup(channels, gor[p].taskID), gor[p].ch) > 0
                     THEN "unsub.close" ELSE "unsub.delete")
    /\ UNCHANGED <<mu, chanBuf, chanState, hubPanic, published, subscribed, taken,
                   overflowed, recvCount, runVars, pureVars, sseVars, overlapVars>>

\* close(ch)
LkClose(p) ==
    /\ gor[p].pc = "unsub.close"
    /\ chanState' = [chanState EXCEPT ![gor[p].ch] = "closed"]
    /\ hubPanic' = (hubPanic \/ chanState[gor[p].ch] = "closed")
    /\ gor' = Step(p, "unsub.delete")
    /\ UNCHANGED <<mu, channels, chanBuf, published, subscribed, taken, overflowed,
                   recvCount, runVars, pureVars, sseVars, overlapVars>>

\* if len(pt.channels[taskID]) == 0 { delete(...) }, and the deferred Unlock
LkDelete(p) ==
    /\ gor[p].pc = "unsub.delete"
    /\ channels' = IF Len(Lookup(channels, gor[p].taskID)) = 0
                   THEN MapDelete(channels, gor[p].taskID) ELSE channels
    /\ mu' = [mu EXCEPT !.writer = 0]
    /\ gor' = Step(p, "done")
    /\ UNCHANGED <<chanBuf, chanState, hubPanic, published, subscribed, taken,
                   overflowed, recvCount, runVars, pureVars, sseVars, overlapVars>>

\* a pipeline enters publish; the pipelines publish for one task id, which a request
\* may watch or not
LkPublishCall(p) ==
    /\ p \in LockPublishers
    /\ gor[p].pc = "idle"
    /\ \A q \in LockPublishers : q < p => gor[q].pc # "idle"
    /\ gor' = [gor EXCEPT ![p] = [@ EXCEPT !.pc = "pub.rlock", !.taskID = "t1"]]
    /\ UNCHANGED <<mu, hubVars, runVars, pureVars, sseVars, overlapVars>>

\* pt.mu.RLock(), granted when nobody holds the write lock, and the evaluation of
\* the range expression pt.channels[update.TaskID]
\* A variant that does not wait for the writer.
LkRLockNoWait(p) ==
    /\ gor[p].pc = "pub.rlock"
    /\ mu' = [mu EXCEPT !.readers = @ \cup {p}]
    /\ gor' = [gor EXCEPT ![p] = [@ EXCEPT !.pc = "pub.range", !.i = 1,
                                          !.list = Lookup(channels, gor[p].taskID)]]
    /\ UNCHANGED <<hubVars, runVars, pureVars, sseVars, overlapVars>>

LkRLock(p) ==
    /\ gor[p].pc = "pub.rlock"
    /\ mu.writer = 0
    /\ mu' = [mu EXCEPT !.readers = @ \cup {p}]
    /\ gor' = [gor EXCEPT ![p] = [@ EXCEPT !.pc = "pub.range", !.i = 1,
                                          !.list = Lookup(channels, gor[p].taskID)]]
    /\ UNCHANGED <<hubVars, runVars, pureVars, sseVars, overlapVars>>

\* one round of the loop of publish: select { case ch <- update: default: }; a send
\* on a closed channel panics
LkSend(p) ==
    /\ gor[p].pc = "pub.range"
    /\ gor[p].i <= Len(gor[p].list)
    /\ LET c == gor[p].list[gor[p].i]
           update == Update(gor[p].taskID, <<"stage">>, "message", 0, FALSE, NoError)
       IN  /\ hubPanic' = (hubPanic \/ chanState[c] = "closed")
           /\ chanBuf' = IF chanState[c] = "closed" THEN chanBuf
                         ELSE [chanBuf EXCEPT ![c] = SelectSend(chanBuf[c], update).buf]
    /\ gor' = [gor EXCEPT ![p].i = @ + 1]
    /\ UNCHANGED <<mu, channels, chanState, published, subscribed, taken, overflowed,
                   recvCount, runVars, pureVars, sseVars, overlapVars>>

\* the end of the loop and the deferred RUnlock
LkRUnlock(p) ==
    /\ gor[p].pc = "pub.range"
    /\ gor[p].i > Len(gor[p].list)
    /\ mu' = [mu EXCEPT !.readers = @ \ {p}]
    /\ gor' = Step(p, "done")
    /\ UNCHANGED <<hubVars, runVars, pureVars, sseVars, overlapVars>>

LkSubscribes == \E p \in LockProcs : LkSubscribeCall(p) \/ LkSubscribeBody(p)
LkLocks == \E p \in LockProcs : LkLock(p)
LkUnsubscribes == \E p \in LockProcs : LkUnsubscribeCall(p) \/ LkRemove(p) \/ LkDelete(p)
LkCloses == \E p \in LockProcs : LkClose(p)
LkRLocks == \E p \in LockProcs : LkPublishCall(p) \/ LkRLock(p)
LkSends == \E p \in LockProcs : LkSend(p)
LkRUnlocks == \E p \in LockProcs : LkRUnlock(p)

LockNext ==
    \/ LkSubscribes
    \/ LkLocks
    \/ LkUnsubscribes
    \/ LkCloses
    \/ LkRLocks
    \/ LkSends
    \/ LkRUnlocks

SpecLock == Init /\ [][LockNext]_vars

\* ------------------------------------------- no send on a closed channel
\* the goroutines inside the part of a call that runs under the write lock, and
\* under a read lock
Writing == {p \in LockProcs : gor[p].pc \in {"sub.body", "unsub.find", "unsub.close",
                                             "unsub.delete"}}
Reading == {p \in LockProcs : gor[p].pc = "pub.range"}

\* C35: however the calls of subscribe, unsubscribe and publish of goroutines running
\* next to one another interleave, no send and no close hits a closed channel, and a
\* closed channel is registered under no task id; the removal and the close of a
\* channel run under the write lock, which one goroutine holds at a time and only
\* while nobody reads, and the sends run under a read lock.
C35_NoSendOnClosedChannel ==
    /\ ~hubPanic
    /\ \A c \in ChanIds : chanState[c] = "closed" => RegisteredUnder(c) = {}
    /\ Writing = IF mu.writer = 0 THEN {} ELSE {mu.writer}
    /\ Reading = mu.readers
    /\ mu.writer # 0 => mu.readers = {}

C35_Witness ==
    /\ \E c \in ChanIds : chanState[c] = "closed"
    /\ \E p, q \in LockPublishers :
          /\ p # q /\ gor[p].pc = "pub.range" /\ gor[q].pc = "pub.range"
          /\ gor[p].taskID = gor[q].taskID
          /\ gor[p].i = 2
    /\ \E w \in LockHandlers : gor[w].pc = "unsub.lock" /\ gor[w].taskID \in DOMAIN channels

\* ------------------------------------------- no reference to a missing file
\* the run's scene had an artifact path when the run began, and the file behind it
\* was on disk
PriorOnDisk == h.prior # Empty /\ h.cleanup \in {"removed", "error"}

\* C37: a run for a scene whose artifact path referred to a file on disk ends,
\* whether it succeeded or failed at the invocation, the materialization or the
\* persisting, with the scene's persisted artifact path still referring to a file on
\* disk.
C37_NoDanglingReference ==
    (h.pc = "done" /\ PriorOnDisk /\ PersistedPath # Empty) =>
        FileBehind(PersistedPath) \in files

\* --------------------------------------------------------- overlapping runs
\* Runs of generateSceneImageHandler that are in progress at the same time, each in
\* its own goroutine, over the one scenes.json and the one directory of generated
\* images. A run is cut where it publishes; nothing serialises the runs.
OverlapTaskId(r) == IF r = 1 THEN "t1" ELSE IF r = 2 THEN "t2" ELSE GenTaskId

\* the run's own publish; no stream is subscribed
OverlapPublish(update) == publish(update) /\ UNCHANGED recvCount

\* the valid request up to the "preparing" event: loadScenesData() hands the run its
\* own copy of the collection
OvStart(r) ==
    /\ runs[r].pc = "idle"
    /\ \A q \in OverlapRuns : q < r => runs[q].pc # "idle"
    /\ \E index \in {0, 2} :
          LET scenes == normalizeScenes(scenesFile)
          IN  runs' = [runs EXCEPT ![r] = [@ EXCEPT !.pc = "config", !.index = index,
                                                     !.taskID = OverlapTaskId(r),
                                                     !.scenes = scenes,
                                                     !.scene = scenes[index + 1]]]
    /\ OverlapPublish(Update(OverlapTaskId(r), <<"preparing">>, "preparing", 10, FALSE, NoError))
    /\ UNCHANGED <<scenesFile, files, lastStamp, h, calls, sleeps, events, runCount,
                   pureVars, sseVars, lockVars>>

\* loadConfig(), then generateSceneImage up to the "generating_image" event
OvConfig(r) ==
    /\ runs[r].pc = "config"
    /\ \E ok \in BOOLEAN :
          IF ok
          THEN /\ runs' = [runs EXCEPT ![r].pc = "invoke"]
               /\ OverlapPublish(Update(runs[r].taskID, StageName("image", "generating"),
                                        "generating", 30, FALSE, NoError))
          ELSE /\ runs' = [runs EXCEPT ![r] = [@ EXCEPT !.pc = "done", !.status = 500]]
               /\ OverlapPublish(ErrorUpdate(runs[r].taskID, "reading the configuration failed",
                                             <<"read error">>))
    /\ UNCHANGED <<scenesFile, files, lastStamp, h, calls, sleeps, events, runCount,
                   pureVars, sseVars, lockVars>>

\* requestSceneImage, then the "downloading_image" event, or the error event of the
\* handler
OvInvoke(r) ==
    /\ runs[r].pc = "invoke"
    /\ \E ok \in BOOLEAN :
          IF ok
          THEN /\ runs' = [runs EXCEPT ![r].pc = "materialize"]
               /\ OverlapPublish(Update(runs[r].taskID, StageName("image", "downloading"),
                                        "downloading", 70, FALSE, NoError))
          ELSE /\ runs' = [runs EXCEPT ![r] = [@ EXCEPT !.pc = "done", !.status = 500]]
               /\ OverlapPublish(ErrorUpdate(runs[r].taskID, "generating failed",
                                             <<"request failed">>))
    /\ UNCHANGED <<scenesFile, files, lastStamp, h, calls, sleeps, events, runCount,
                   pureVars, sseVars, lockVars>>

\* the file name from time.Now().Unix(), removeGeneratedImage(scene.ImagePath), then
\* downloadToFile or saveBase64ToFile; a failure is answered with the error event
OvMaterialize(r) ==
    /\ runs[r].pc = "materialize"
    /\ \E stamp \in Stamps, ok \in BOOLEAN :
          LET filename == SceneFileName(runs[r].index, stamp, Dot \o Png)
              cleaned == IF runs[r].scene.ImagePath = Empty THEN files
                         ELSE removeGeneratedFile(files, runs[r].scene.ImagePath,
                                                  generatedImagesURLPrefix,
                                                  generatedImagesDir, TRUE)
          IN  /\ lastStamp' = stamp
              /\ IF ok
                 THEN /\ files' = cleaned \cup {JoinPath(generatedImagesDir, filename)}
                      /\ runs' = [runs EXCEPT ![r] =
                                     [@ EXCEPT !.pc = "save",
                                               !.relPath = <<generatedImagesURLPrefix>> \o filename]]
                      /\ UNCHANGED hubVars
                 ELSE /\ files' = cleaned
                      /\ runs' = [runs EXCEPT ![r] = [@ EXCEPT !.pc = "done", !.status = 500]]
                      /\ OverlapPublish(ErrorUpdate(runs[r].taskID, "generating failed",
                                                    <<"download failed:">>))
    /\ UNCHANGED <<scenesFile, h, calls, sleeps, events, runCount, pureVars, sseVars, lockVars>>

\* scene.ImagePath = imagePath; scenes[payload.Index] = scene; saveScenesData(scenes),
\* then the terminal event and the response
OvSave(r) ==
    /\ runs[r].pc = "save"
    /\ \E ok \in BOOLEAN :
          LET scene == WithArtifact("image", runs[r].scene, runs[r].relPath)
              scenes == [runs[r].scenes EXCEPT ![runs[r].index + 1] = scene]
          IN  IF ok
              THEN /\ scenesFile' = normalizeScenes(scenes)
                   /\ runs' = [runs EXCEPT ![r] = [@ EXCEPT !.pc = "done", !.status = 200,
                                                            !.scene = scene, !.scenes = scenes]]
                   /\ OverlapPublish(CompletedUpdate(runs[r].taskID))
              ELSE /\ UNCHANGED scenesFile
                   /\ runs' = [runs EXCEPT ![r] = [@ EXCEPT !.pc = "done", !.status = 500]]
                   /\ OverlapPublish(ErrorUpdate(runs[r].taskID, "saving the scenes failed",
                                                 <<"write error">>))
    /\ UNCHANGED <<files, lastStamp, h, calls, sleeps, events, runCount,
                   pureVars, sseVars, lockVars>>

OvStarts == \E r \in OverlapRuns : OvStart(r)
OvConfigs == \E r \in OverlapRuns : OvConfig(r)
OvInvokes == \E r \in OverlapRuns : OvInvoke(r)
OvMaterializes == \E r \in OverlapRuns : OvMaterialize(r)
OvSaves == \E r \in OverlapRuns : OvSave(r)

OverlapNext ==
    \/ OvStarts
    \/ OvConfigs
    \/ OvInvokes
    \/ OvMaterializes
    \/ OvSaves

SpecOverlap == Init /\ [][OverlapNext]_vars

\* ------------------------------------------- no update of a run is lost
\* the run answered 200
Succeeded(r) == runs[r].pc = "done" /\ runs[r].status = 200

\* C36: when two runs for different scenes both succeeded, overlapping or not, the
\* persisted collection holds the new artifact path of both.
C36_NoLostUpdate ==
    \A r, q \in OverlapRuns :
        (Succeeded(r) /\ Succeeded(q) /\ runs[r].index # runs[q].index) =>
            /\ scenesFile[runs[r].index + 1].ImagePath = runs[r].relPath
            /\ scenesFile[runs[q].index + 1].ImagePath = runs[q].relPath

\* ------------------------------------------- one artifact file per field
\* the generated image files of the scene at index
FieldFiles(index) ==
    {f \in files : /\ Head(f) = generatedImagesDir
                   /\ Len(f) >= 3
                   /\ SubSeq(f, 2, 3) = <<"scene_", Itoa(index + 1)>>}

\* no run is in progress, some run has been made, and the runs made were all for
\* the same scene and all succeeded
AllReturned ==
    /\ \A r \in OverlapRuns : runs[r].pc = "idle" \/ Succeeded(r)
    /\ \E r \in OverlapRuns : runs[r].pc = "done"
    /\ \A r, q \in OverlapRuns :
          (runs[r].pc = "done" /\ runs[q].pc = "done") => runs[r].index = runs[q].index

\* C38: once the runs for a scene's image have returned, whether they overlapped or
\* not, at most one generated image file of that scene is on disk, and it is the file
\* the persisted record references. Stated for runs that all succeeded, the least
\* the claim says.
C38_OneFilePerField ==
    AllReturned =>
        \A r \in OverlapRuns :
            runs[r].pc = "done" =>
                /\ Cardinality(FieldFiles(runs[r].index)) <= 1
                /\ \A f \in FieldFiles(runs[r].index) :
                      /\ HasPrefix(scenesFile[runs[r].index + 1].ImagePath,
                                   <<generatedImagesURLPrefix>>)
                      /\ f = JoinPath(generatedImagesDir,
                                      NameIn(scenesFile[runs[r].index + 1].ImagePath))

\* ------------------------------------------- completed only after the save
\* the places of the completed event among the run's events
CompletedEvents == {i \in 1..Len(events) : events[i].Stage = <<"completed">>}

\* the run was answered with the failure of saveScenesData
SaveFailed ==
    h.pc = "done" /\ h.resp.err = <<"saving the scenes failed:", "write error">>

\* C39: a run's completed event, the one with progress 100, is in its events only
\* once scenes.json holds the collection with the run's new artifact path; it is the
\* run's last event. A run whose saveScenesData failed has published a terminal
\* event with an error text as its last event and no completed event.
C39_CompletedOnlyAfterSave ==
    /\ \A i \in 1..Len(events) : events[i].Progress = 100 <=> i \in CompletedEvents
    /\ CompletedEvents # {} =>
          /\ CompletedEvents = {Len(events)}
          /\ SuccessResponse
          /\ h.relPath # Empty
          /\ PersistedPath = h.relPath
          /\ scenesFile = normalizeScenes(h.scenes)
    /\ SaveFailed =>
          /\ CompletedEvents = {}
          /\ events # <<>>
          /\ Last(events).Completed /\ Last(events).Error # NoError
          /\ scenesFile[h.index + 1] = normalizeScenes(<<h.scene>>)[1] => h.relPath = h.prior

C39_Witness ==
    /\ SaveFailed
    /\ h.absPath \in files
    /\ Len(events) >= 4
    /\ Last(events).Stage = <<"error">>

\* ------------------------------------------- a stream is a subsequence of the series
\* the places at which update stands in series
PlacesOf(update, series) == {j \in 1..Len(series) : series[j] = update}

\* C40: the updates put into a subscriber's channel, those its reader took out and
\* those still buffered, all carry the channel's task id and stand, each at one place
\* only, in the series of updates published for that task id after the subscription;
\* their places go up along the channel: a subsequence of the series in publish order,
\* without a duplicate, a reordering or an update of another task id.
C40_SubsequenceInPublishOrder ==
    \A c \in ChanIds :
        chanState[c] = "open" =>
            LET t == subscribed[c].task
                series == SubSeq(published[t], subscribed[c].at + 1, Len(published[t]))
                got == Delivered(c)
            IN  /\ \A k \in 1..Len(got) :
                      /\ got[k].TaskID = t
                      /\ Cardinality(PlacesOf(got[k], series)) = 1
                /\ \A k, l \in 1..Len(got) :
                      k < l => \A i \in PlacesOf(got[k], series), j \in PlacesOf(got[l], series) :
                                  i < j

C40_Witness ==
    \E c \in ChanIds :
        /\ chanState[c] = "open"
        /\ overflowed[c]
        /\ Len(taken[c]) = 1
        /\ Len(chanBuf[c]) >= 2
        /\ Len(Delivered(c)) < Len(published[subscribed[c].task]) - subscribed[c].at


====
